---- MODULE Spec2Model ----
(***************************************************************************)
(* Aztec flush bots.                                                       *)
(*                                                                         *)
(*   "dynamic"  src/unnamed/part_000 lines 1-440   (aztec-flush.mjs,       *)
(*              slot model, local clock sync, optional builder bundles)    *)
(*   "multi"    src/unnamed/part_001               (aztec-flush.mjs,       *)
(*              slot model, three modes)                                   *)
(*   "simple"   src/java.mjs                       (run.mjs, genesis       *)
(*              model, block timestamp)                                    *)
(*                                                                         *)
(* One behaviour runs one bot; Init chooses the bot and its configuration  *)
(* (the process environment), which then stay fixed.                       *)
(*                                                                         *)
(* Units.  Wall-clock readings (Date.now()) are milliseconds and are whole *)
(* seconds in every behaviour, so that (nowMs - localStartTimeMs) / 1000   *)
(* is an integer and the floating point arithmetic of getLocalTime is      *)
(* exact.  Reward balances are counted in whole tokens (10^18 base units). *)
(***************************************************************************)
EXTENDS Integers, Sequences, FiniteSets, TLC

VARIABLES
  bot,                   \* which program runs
  pc,                    \* position of the (single) thread of control
  now,                   \* Date.now(), ms
  blockTimestamp,        \* timestamp of the latest block the node has served
  rewards,               \* FlushRewarder.rewardsOf(wallet), the contract's state
  FLUSH_MODE,            \* process.env.FLUSH_MODE
  PRE_SEND_SECONDS,      \* process.env.PRE_SEND_SECONDS
  EPOCH_WINDOW_SEC,      \* process.env.FLUSH_VALID
  USE_MEV_BUNDLE,        \* process.env.USE_MEV_BUNDLE
  lastOnChainSeconds,    \* part_000:73
  cachedOnChainState,    \* part_000:74
  localStartTimeMs,      \* part_000:76
  localEpochStartSec,    \* part_000:77
  localEpochDurationSec, \* part_000:78
  localCurrentEpoch,     \* part_000:79
  lastFlushedEpoch,      \* run: let lastFlushedEpoch
  newState,              \* run: the tick's on-chain sample
  localView,             \* run: the tick's { seconds, nextEpochIn, epoch }
  targetEpoch,           \* run: let targetEpoch
  decision,              \* history: the last trigger-policy evaluation
  lastFlush,             \* history: what the tick's tryFlush call did
  flushed,               \* history: the target epochs tryFlush was called for
  dispatchedFor,         \* history: the target epochs a transaction went out for
  lastClaim,             \* history: what the last autoClaim call did
  sampleMonotone,        \* history: no fresh sample went backward so far
  lastLocal,             \* history: the last result of getLocalTime and its time
  prevLocal,             \* history: the result before it, when the tick did not re-anchor
  freshSample,           \* history: the tick's getOnChainState() call succeeded
  inSpamMode,            \* part_000:641 (runForever of the spam-mode bot)
  spamProbe,             \* part_000:681, the loop counter i
  readsInFlight,         \* reads of the last getOnChainState() call are not settled yet
  exit,                  \* process.exit: the status, and where the loop was
  posts,                 \* sendBundle: the state of the post to each builder
  gas,                   \* a call of getGasConfig: its arguments and its result
  clock,                 \* a call of getLocalTime: the anchor, the time, the result
  fanOut,                \* the bundles of one firing tick in fan-out mode, and the chain
  awaitingTx,            \* a transaction of tryFlush or autoClaim is out and awaited
  firstTick              \* history: the genesis bots' loop is in its first iteration

vars == << bot, pc, now, blockTimestamp, rewards, FLUSH_MODE, PRE_SEND_SECONDS, EPOCH_WINDOW_SEC,
           USE_MEV_BUNDLE, lastOnChainSeconds, cachedOnChainState,
           localStartTimeMs, localEpochStartSec, localEpochDurationSec,
           localCurrentEpoch, lastFlushedEpoch, newState, localView, targetEpoch,
           decision, lastFlush, flushed, dispatchedFor, lastClaim, sampleMonotone,
           lastLocal, prevLocal, freshSample, inSpamMode, spamProbe,
           readsInFlight, exit, posts, gas, clock, fanOut, awaitingTx, firstTick >>

----------------------------------------------------------------------------
(* Bounds of the model *)

\* wall-clock horizon, in seconds after the start of the process
MaxNowSec == 8
\* seconds per slot that the rollup contract has
SlotDurationSec == 2
\* slots per epoch that the rollup contract has
SlotsPerEpoch == 2
\* how many slots behind the chain head a node's answer may be
MaxStaleSlots == 1
\* largest configured FLUSH_VALID and PRE_SEND_SECONDS
MaxWindowSec == 2
MaxLeadSec == 2
\* how many epoch boundaries after genesis the block timestamps reach
MaxGenesisEpochs == 1
\* how many seconds the wall clock may be ahead of the latest block's timestamp
MaxClockLeadSec == 1
\* the largest fee the network reports, in gwei, and the largest GAS_PERCENT_INCREASE
MaxFeeGwei == 30
MaxPercent == 33
MaxElapsedSec == 13
\* the blocks mined while one tick is in its fire branch
MaxBlocks == 3
\* the second of the horizon at which a process that submits through the
\* builders is started
FanOutStartSec == 7

----------------------------------------------------------------------------
(* Program constants *)

CHECK_INTERVAL_MS == 1000
MAX_REWARD_TO_CLAIM == 1000
DEFAULT_EPOCH_DURATION_SEC == 2304
\* java.mjs
GENESIS_TIMESTAMP == 1733356800
EPOCH_DURATION_SEC == 2304
GENESIS_EPOCH_WINDOW_SEC == 15
\* 1_000_000_000n, the wei of one gwei
GWEI == 1000000000
\* part_000, the spam-mode bot
SPAM_INTERVAL_MS == 500
SPAM_DURATION_SEC == 10
SPAM_LEAD_MS == 5000

\* null / undefined
NULL == [null |-> TRUE]

Max(a, b) == IF a >= b THEN a ELSE b

\* the loop's catch with a rethrow: the error ends the loop
catchLoopError_rethrow == "dead"

\* java.mjs:229-231, part_000:429-431 and 701-703, part_001:262-264: the loop's
\* catch logs the error, and the iteration goes on to the sleep below it
catchLoopError == "sleep"

----------------------------------------------------------------------------
(* The chain and the node, as the bots see them *)

\* Rollup.getCurrentSlot() at the chain head, at wall-clock time nowMs
HeadSlot(nowMs) == ((nowMs \div 1000) - 1) \div SlotDurationSec

\* a round of reads that the node does not answer
FailedReads ==
  { [ok |-> FALSE, currentSlot |-> 0, slotDurationSec |-> 0, slotsPerEpoch |-> 0] }

\* What one round of reads of the rollup contract can return: the reads fail, or
\* they return the slot of a head at most MaxStaleSlots old, and possibly a zero
\* slot duration or a zero number of slots per epoch.
NodeReads(nowMs) ==
  { [ok |-> TRUE, currentSlot |-> s, slotDurationSec |-> d, slotsPerEpoch |-> p] :
      s \in Max(0, HeadSlot(nowMs) - MaxStaleSlots) .. HeadSlot(nowMs),
      d \in {0, SlotDurationSec},
      p \in {0, SlotsPerEpoch} }
  \cup FailedReads

\* the one answer of a node that follows the head and reports the contract's own
\* parameters
CurrentReads(nowMs) ==
  { [ok |-> TRUE, currentSlot |-> HeadSlot(nowMs), slotDurationSec |-> SlotDurationSec,
     slotsPerEpoch |-> SlotsPerEpoch] }

\* balances the reward contract can hold for the wallet
RewardLevels == {0, MAX_REWARD_TO_CLAIM, MAX_REWARD_TO_CLAIM + 1}

----------------------------------------------------------------------------
(* part_000: getOnChainState *)

\* Promise.all rejects when a read fails; BigInt % 0n throws a RangeError
getOnChainStateThrows(r) == ~r.ok \/ r.slotsPerEpoch = 0

getOnChainState(r, userReward) ==
  LET epochNum == IF r.slotsPerEpoch > 0 THEN r.currentSlot \div r.slotsPerEpoch ELSE 0
      slotsIntoEpoch == r.currentSlot % r.slotsPerEpoch
      secondsIntoEpoch == slotsIntoEpoch * r.slotDurationSec
      epochDurationSec == r.slotsPerEpoch * r.slotDurationSec
  IN  [ currentSlot |-> r.currentSlot,
        slotDurationSec |-> r.slotDurationSec,
        slotsPerEpoch |-> r.slotsPerEpoch,
        epochNum |-> epochNum,
        slotsIntoEpoch |-> slotsIntoEpoch,
        secondsIntoEpoch |-> secondsIntoEpoch,
        userReward |-> userReward,
        epochDurationSec |-> epochDurationSec ]

----------------------------------------------------------------------------
(* part_000: the local clock *)

\* the four globals of lines 76-79
Anchor(startMs, epochStartSec, durationSec, epoch) ==
  [ localStartTimeMs |-> startMs,
    localEpochStartSec |-> epochStartSec,
    localEpochDurationSec |-> durationSec,
    localCurrentEpoch |-> epoch ]

CurrentAnchor ==
  Anchor(localStartTimeMs, localEpochStartSec, localEpochDurationSec, localCurrentEpoch)

syncLocalToOnChain(nowMs, onchainSeconds, onchainEpoch, epochDuration) ==
  Anchor(nowMs, onchainSeconds, epochDuration, onchainEpoch)

\* a local clock that does not add the elapsed time
getLocalTime_frozen(nowMs, a) ==
  [ seconds |-> a.localEpochStartSec,
    nextEpochIn |-> a.localEpochDurationSec - a.localEpochStartSec,
    epoch |-> a.localCurrentEpoch,
    anchor |-> a, calls |-> 1 ]

\* a local clock that rolls over one epoch for each time it re-enters itself
RECURSIVE getLocalTime_stepwise(_, _)
getLocalTime_stepwise(nowMs, a) ==
  IF a.localStartTimeMs = 0
  THEN [ seconds |-> 0, nextEpochIn |-> a.localEpochDurationSec,
         epoch |-> a.localCurrentEpoch, anchor |-> a, calls |-> 1 ]
  ELSE
    LET elapsedSec == (nowMs - a.localStartTimeMs) \div 1000
        secondsInCurrentEpoch == a.localEpochStartSec + elapsedSec
    IN  IF secondsInCurrentEpoch >= a.localEpochDurationSec
        THEN LET again == getLocalTime_stepwise(nowMs,
                            Anchor(a.localStartTimeMs,
                                   a.localEpochStartSec - a.localEpochDurationSec,
                                   a.localEpochDurationSec,
                                   a.localCurrentEpoch + 1))
             IN  [again EXCEPT !.calls = @ + 1]
        ELSE [ seconds |-> secondsInCurrentEpoch,
               nextEpochIn |-> a.localEpochDurationSec - secondsInCurrentEpoch,
               epoch |-> a.localCurrentEpoch,
               anchor |-> a, calls |-> 1 ]

\* getLocalTime reads and writes the globals: the result carries the new anchor,
\* and the number of times the function was entered (line 142 re-enters it)
RECURSIVE getLocalTime(_, _)
getLocalTime(nowMs, a) ==
  IF a.localStartTimeMs = 0
  THEN [ seconds |-> 0, nextEpochIn |-> a.localEpochDurationSec,
         epoch |-> a.localCurrentEpoch, anchor |-> a, calls |-> 1 ]
  ELSE
    LET elapsedSec == (nowMs - a.localStartTimeMs) \div 1000
        secondsInCurrentEpoch == a.localEpochStartSec + elapsedSec
    IN  IF secondsInCurrentEpoch >= a.localEpochDurationSec
        THEN LET epochsPassed == secondsInCurrentEpoch \div a.localEpochDurationSec
                 again == getLocalTime(nowMs,
                   Anchor(nowMs - ((secondsInCurrentEpoch % a.localEpochDurationSec) * 1000),
                          a.localEpochStartSec - epochsPassed * a.localEpochDurationSec,
                          a.localEpochDurationSec,
                          a.localCurrentEpoch + epochsPassed))
             IN  [again EXCEPT !.calls = @ + 1]
        ELSE [ seconds |-> secondsInCurrentEpoch,
               nextEpochIn |-> a.localEpochDurationSec - secondsInCurrentEpoch,
               epoch |-> a.localCurrentEpoch,
               anchor |-> a, calls |-> 1 ]

----------------------------------------------------------------------------
(* part_000: run, lines 392-419, the trigger policy *)

\* the policy with windows that exclude their last second
evaluate_strictWindow(mode, window, lead, onchainSeconds, onchainEpoch, onchainNextEpochIn, localSeconds, localNextEpochIn, localEpoch, mark) ==
  LET fire == IF mode = "block" THEN onchainSeconds < window /\ onchainEpoch # mark
              ELSE IF mode = "local" THEN localSeconds < window /\ localEpoch # mark
              ELSE IF mode = "pre" THEN onchainNextEpochIn < lead /\ onchainEpoch # mark
              ELSE IF mode = "local-pre" THEN localNextEpochIn < lead /\ localEpoch # mark
              ELSE FALSE
      target == IF ~fire THEN onchainEpoch
                ELSE IF mode = "block" THEN onchainEpoch
                ELSE IF mode = "local" THEN localEpoch
                ELSE IF mode = "pre" THEN onchainEpoch + 1
                ELSE localEpoch + 1
  IN  [shouldFlush |-> fire, targetEpoch |-> target]

evaluate(mode, window, lead, onchainSeconds, onchainEpoch, onchainNextEpochIn, localSeconds, localNextEpochIn, localEpoch, mark) ==
  IF mode = "block" THEN
    IF onchainSeconds <= window /\ onchainEpoch # mark
    THEN [shouldFlush |-> TRUE, targetEpoch |-> onchainEpoch]
    ELSE [shouldFlush |-> FALSE, targetEpoch |-> onchainEpoch]
  ELSE IF mode = "local" THEN
    IF localSeconds <= window /\ localEpoch # mark
    THEN [shouldFlush |-> TRUE, targetEpoch |-> localEpoch]
    ELSE [shouldFlush |-> FALSE, targetEpoch |-> onchainEpoch]
  ELSE IF mode = "pre" THEN
    IF onchainNextEpochIn <= lead /\ onchainEpoch # mark
    THEN [shouldFlush |-> TRUE, targetEpoch |-> onchainEpoch + 1]
    ELSE [shouldFlush |-> FALSE, targetEpoch |-> onchainEpoch]
  ELSE IF mode = "local-pre" THEN
    IF localNextEpochIn <= lead /\ localEpoch # mark
    THEN [shouldFlush |-> TRUE, targetEpoch |-> localEpoch + 1]
    ELSE [shouldFlush |-> FALSE, targetEpoch |-> onchainEpoch]
  ELSE [shouldFlush |-> FALSE, targetEpoch |-> onchainEpoch]

\* `newState.epochDurationSec || 2304`
durationOrDefault(d) == IF d = 0 THEN DEFAULT_EPOCH_DURATION_SEC ELSE d

----------------------------------------------------------------------------
(* part_000: tryFlush *)

\* lines 55-63
BUILDERS == {"flashbots", "titan", "beaver", "bobthebuilder", "bloxroute", "quasar", "eureka"}

\* What the builders do to one bundle: each accepts the post, rejects it, or
\* does not answer within the 5000 ms of the post's timeout.  Nobody accepts,
\* three of the seven accept, or everybody accepts.
RelayAnswers ==
  { [b \in BUILDERS |-> "rejected"],
    [b \in BUILDERS |-> IF b \in {"flashbots", "titan", "beaver"} THEN "accepted"
                        ELSE IF b = "quasar" THEN "timeout" ELSE "rejected"],
    [b \in BUILDERS |-> "accepted"] }

\* lines 177-189: the posts that fulfilled with success: true are counted and
\* logged, and nothing is returned
sendBundle(answers) ==
  [ successCount |-> Cardinality({b \in DOMAIN answers : answers[b] = "accepted"}),
    returns |-> NULL ]

\* What the node and the network do to one tryFlush call: the answer to its reads
\* of the rollup, a fault of a later call (none, the contract's benign revert or
\* any other error) and the balance after a confirmed transaction.
\* The call of tryFlush at which a fault strikes: at or before the dispatch
\* (rewardsOf, getFeeData, flushEntryQueue; with a bundle also
\* getTransactionCount, createRawTx, getBlockNumber), at tx.wait(), or at the
\* second rewardsOf, after the transaction was mined.
FaultPoints == {"send", "wait", "rewardsOf2"}

\* the catch of tryFlush: the message decides between the two logs
faultOutcome(fault) == IF fault = "no validators" THEN "benign" ELSE "failed"

FlushInputs(nowMs, balance) ==
  { in \in [ read : NodeReads(nowMs),
             fault : {"none", "no validators", "error"},
             faultAt : IF USE_MEV_BUNDLE THEN {"send"} ELSE FaultPoints,
             after : {v \in RewardLevels : v >= balance},
             relays : IF USE_MEV_BUNDLE THEN RelayAnswers
                      ELSE {[b \in BUILDERS |-> "rejected"]} ] :
      in.fault = "none" => in.faultAt = "send" }

\* the same with every call answered by a current node and no fault
FlushInputsOk(nowMs, balance) ==
  [ read : CurrentReads(nowMs),
    fault : {"none"},
    faultAt : {"send"},
    after : {v \in RewardLevels : v >= balance},
    relays : {[b \in BUILDERS |-> "accepted"]} ]

\* outcome: "failed"    an error other than the benign one was caught
\*          "benign"    'no validators' / 'already flushed' was caught
\*          "skipped"   the guard of line 199 returned before any dispatch
\*          "bundle"    the signed transaction went to the builders
\*          "confirmed" the transaction was broadcast and mined
tryFlush(in, window, mev, balance) ==
  IF ~in.read.ok \/ in.read.slotsPerEpoch = 0
  THEN [outcome |-> "failed", returns |-> FALSE, rewards |-> balance, successCount |-> -1,
        dispatched |-> FALSE]
  ELSE
    LET secondsInto ==
          (in.read.currentSlot % in.read.slotsPerEpoch) * in.read.slotDurationSec
    IN  IF secondsInto > window
        THEN [outcome |-> "skipped", returns |-> FALSE, rewards |-> balance,
              successCount |-> -1, dispatched |-> FALSE]
        ELSE IF in.fault # "none" /\ in.faultAt = "send"
        THEN [outcome |-> faultOutcome(in.fault), returns |-> FALSE, rewards |-> balance,
              successCount |-> -1, dispatched |-> FALSE]
        ELSE IF mev
        THEN \* lines 223-230: the result of sendBundle is not looked at; a bundle
             \* that no builder has can not be included. No call follows
             \* sendBundle, which catches the errors of its posts.
             LET sent == sendBundle(in.relays)
             IN  [outcome |-> "bundle", returns |-> TRUE,
                  rewards |-> IF sent.successCount = 0 THEN balance ELSE in.after,
                  successCount |-> sent.successCount, dispatched |-> TRUE]
        ELSE IF in.fault # "none" /\ in.faultAt = "wait"
        THEN \* line 238: the transaction is out, tx.wait() rejects
             [outcome |-> faultOutcome(in.fault), returns |-> FALSE, rewards |-> balance,
              successCount |-> -1, dispatched |-> TRUE]
        ELSE IF in.fault # "none"
        THEN \* line 242: the transaction was mined, the second rewardsOf rejects
             [outcome |-> faultOutcome(in.fault), returns |-> FALSE, rewards |-> in.after,
              successCount |-> -1, dispatched |-> TRUE]
        ELSE [outcome |-> "confirmed", returns |-> in.after - balance > 0,
              rewards |-> in.after, successCount |-> -1, dispatched |-> TRUE]

----------------------------------------------------------------------------
(* part_000: autoClaim *)

ClaimInputs ==
  [ claimable : {"true", "false", "error"},
    balanceOk : BOOLEAN,
    sendOk : BOOLEAN,
    included : BOOLEAN ]

ClaimInputsOk ==
  [ claimable : {"true"},
    balanceOk : {TRUE},
    sendOk : {TRUE},
    included : BOOLEAN ]

\* outcome: "not_claimable" isRewardsClaimable() answered false
\*          "failed"        an error was caught
\*          "none"          the balance was read and nothing was sent
\*          "bundle"        a claim bundle went to the builders
\*          "claimed"       claimRewards() was broadcast and mined
\* read is the balance autoClaim read itself, -1 when it read none
autoClaim(in, mev, balance) ==
  LET claimable == in.claimable # "false"    \* .catch(() => true)
  IN  IF ~claimable
      THEN [outcome |-> "not_claimable", read |-> -1, rewards |-> balance]
      ELSE IF ~in.balanceOk
      THEN [outcome |-> "failed", read |-> -1, rewards |-> balance]
      ELSE IF balance > 0 /\ balance <= MAX_REWARD_TO_CLAIM
      THEN IF ~in.sendOk
           THEN [outcome |-> "failed", read |-> balance, rewards |-> balance]
           ELSE IF mev
           THEN [outcome |-> "bundle", read |-> balance,
                 rewards |-> IF in.included THEN 0 ELSE balance]
           ELSE [outcome |-> "claimed", read |-> balance, rewards |-> 0]
      ELSE [outcome |-> "none", read |-> balance, rewards |-> balance]

----------------------------------------------------------------------------
(* part_000: run *)

\* the fresh sample st is behind the previous fresh sample in (epoch, seconds)
Backward(prev, st) ==
  IF prev = NULL THEN FALSE
  ELSE \/ st.epochNum < prev.epochNum
       \/ st.epochNum = prev.epochNum /\ st.secondsIntoEpoch < prev.secondsIntoEpoch

SetAnchor(a) ==
  /\ localStartTimeMs' = a.localStartTimeMs
  /\ localEpochStartSec' = a.localEpochStartSec
  /\ localEpochDurationSec' = a.localEpochDurationSec
  /\ localCurrentEpoch' = a.localCurrentEpoch

SpamOnly == << inSpamMode, spamProbe >>
Settings == << bot, blockTimestamp, FLUSH_MODE, PRE_SEND_SECONDS, EPOCH_WINDOW_SEC,
              USE_MEV_BUNDLE, SpamOnly, exit, gas, clock, fanOut, firstTick >>
Config == << Settings, posts, awaitingTx >>
AnchorVars == << localStartTimeMs, localEpochStartSec, localEpochDurationSec,
                 localCurrentEpoch >>

\* lines 366-368 and 392-421: the views of the tick, the policy, the branch
Evaluate(st, lv) ==
  LET onchainSeconds == st.secondsIntoEpoch
      onchainEpoch == st.epochNum
      onchainNextEpochIn == durationOrDefault(st.epochDurationSec) - onchainSeconds
      d == evaluate(FLUSH_MODE, EPOCH_WINDOW_SEC, PRE_SEND_SECONDS,
                    onchainSeconds, onchainEpoch, onchainNextEpochIn,
                    lv.seconds, lv.nextEpochIn, lv.epoch, lastFlushedEpoch)
  IN  /\ decision' = [ onchainSeconds |-> onchainSeconds,
                       onchainEpoch |-> onchainEpoch,
                       onchainNextEpochIn |-> onchainNextEpochIn,
                       localSeconds |-> lv.seconds,
                       localNextEpochIn |-> lv.nextEpochIn,
                       localEpoch |-> lv.epoch,
                       firedMark |-> lastFlushedEpoch,
                       shouldFlush |-> d.shouldFlush,
                       targetEpoch |-> d.targetEpoch ]
      /\ targetEpoch' = d.targetEpoch
      /\ pc' = IF d.shouldFlush THEN "flush" ELSE "sleep"

\* lines 82-98: Promise.all rejects with the first read that rejects, and does
\* not wait for the other six: they may still be in flight when it has rejected
siblingsPending(r) == IF r.ok THEN {FALSE} ELSE {FALSE, TRUE}

\* lines 311 and 329-339: the balance read and the first sample; a failure
\* rejects run() and no loop starts
Run_Initialize(Reads) ==
  /\ bot = "dynamic" /\ pc = "start"
  /\ \E r \in Reads :
       IF getOnChainStateThrows(r)
       THEN /\ pc' = "dead"
            /\ readsInFlight' \in siblingsPending(r)
            /\ UNCHANGED << lastOnChainSeconds, cachedOnChainState, AnchorVars >>
       ELSE LET initialState == getOnChainState(r, rewards)
            IN  /\ readsInFlight' = FALSE
                /\ lastOnChainSeconds' = initialState.secondsIntoEpoch
                /\ cachedOnChainState' = initialState
                /\ SetAnchor(syncLocalToOnChain(now, initialState.secondsIntoEpoch,
                       initialState.epochNum,
                       durationOrDefault(initialState.epochDurationSec)))
                /\ pc' = "tick"
  /\ lastFlushedEpoch' = -1
  /\ UNCHANGED << Config, now, rewards, newState, localView, targetEpoch, decision,
                  lastFlush, flushed, dispatchedFor, lastClaim, sampleMonotone,
                  lastLocal, prevLocal, freshSample >>

\* a tick that has no sample when its read fails
readOrCached_noFallback(r, userReward, cached) ==
  IF getOnChainStateThrows(r) THEN NULL ELSE getOnChainState(r, userReward)

\* lines 343-350: the sample of the tick, the cached one when the read fails
readOrCached(r, userReward, cached) ==
  IF getOnChainStateThrows(r) THEN cached ELSE getOnChainState(r, userReward)

\* lines 342-390, and 392-421 when no claim is due
Run_Sample(Reads) ==
  /\ bot = "dynamic" /\ pc = "tick"
  /\ \E r \in Reads :
       LET fresh == ~getOnChainStateThrows(r)
           st == readOrCached(r, rewards, cachedOnChainState)
       IN  /\ cachedOnChainState' = st
           /\ sampleMonotone' = (sampleMonotone /\ (fresh => ~Backward(cachedOnChainState, st)))
           /\ freshSample' = fresh
           /\ readsInFlight' \in siblingsPending(r)
           /\ IF st = NULL
              THEN /\ pc' = "sleep"
                   /\ UNCHANGED << lastOnChainSeconds, AnchorVars, newState, localView,
                                   targetEpoch, decision, lastLocal, prevLocal >>
              ELSE LET currentOnChainSeconds == st.secondsIntoEpoch
                       resync == currentOnChainSeconds # lastOnChainSeconds
                       a == IF resync
                            THEN syncLocalToOnChain(now, currentOnChainSeconds, st.epochNum,
                                                    durationOrDefault(st.epochDurationSec))
                            ELSE CurrentAnchor
                       lt == getLocalTime(now, a)
                       lv == [seconds |-> lt.seconds, nextEpochIn |-> lt.nextEpochIn,
                              epoch |-> lt.epoch]
                   IN  /\ lastOnChainSeconds' = currentOnChainSeconds
                       /\ SetAnchor(lt.anchor)
                       /\ newState' = st
                       /\ localView' = lv
                       /\ lastLocal' = [seconds |-> lt.seconds, epoch |-> lt.epoch, at |-> now]
                       /\ prevLocal' = IF resync THEN NULL ELSE lastLocal
                       /\ IF st.userReward > 0
                          THEN /\ pc' = "claim1"
                               /\ UNCHANGED << targetEpoch, decision >>
                          ELSE Evaluate(st, lv)
  /\ UNCHANGED << Config, now, rewards, lastFlushedEpoch, lastFlush, flushed, dispatchedFor, lastClaim >>

\* Promise.race in the place of Promise.allSettled: the first post that settles
\* ends the wait
firstSettled(p) == \E b \in DOMAIN p : p[b] # "pending"

\* line 177: Promise.allSettled fulfils when every post has settled
allSettled(p) == \A b \in DOMAIN p : p[b] # "pending"

\* the posts of sendBundle when they have been started (lines 177-179)
allPending == [b \in BUILDERS |-> "pending"]

\* the claim transaction that autoClaim has broadcast and whose confirmation it
\* awaits (lines 292-293, part_001:162-163)
claimSent == [claim |-> TRUE]

\* autoClaim has ended without sending anything: the balance is out of range,
\* isRewardsClaimable() answered false, or a call up to the send was rejected
claimEndsAtOnce(c) == c.outcome \notin {"bundle", "claimed"}

\* the end of an autoClaim call that has sent its claim: with a bundle the count
\* of sendBundle; with a transaction tx.wait() fulfils or rejects
claimEndsAfterSend(c, in, sent) ==
  IF sent # NULL
  THEN c.outcome = "bundle" /\ (in.included => sendBundle(sent).successCount > 0)
  ELSE c.outcome = "claimed" \/ (c.outcome = "failed" /\ c.read # -1)

\* line 390, then 392-421; with a claim to send, line 390 up to the posts of
\* sendBundle (lines 284-289 and 177-179) or up to claimRewards() (line 292)
Run_ClaimIfDue(Inputs) ==
  /\ bot = "dynamic" /\ pc = "claim1" /\ posts = NULL /\ awaitingTx = NULL
  /\ \E in \in Inputs :
       LET c == autoClaim(in, USE_MEV_BUNDLE, rewards)
       IN  IF claimEndsAtOnce(c)
           THEN /\ rewards' = c.rewards
                /\ lastClaim' = [outcome |-> c.outcome, read |-> c.read, at |-> "tick"]
                /\ Evaluate(newState, localView)
                /\ UNCHANGED << posts, awaitingTx >>
           ELSE /\ posts' = IF c.outcome = "bundle" THEN allPending ELSE posts
                /\ awaitingTx' = IF c.outcome = "claimed" THEN claimSent ELSE awaitingTx
                /\ UNCHANGED << pc, rewards, lastClaim, targetEpoch, decision >>
  /\ UNCHANGED << Settings, readsInFlight, now, lastOnChainSeconds,
                  cachedOnChainState, AnchorVars, lastFlushedEpoch, newState, localView,
                  lastFlush, flushed, dispatchedFor, sampleMonotone, lastLocal, prevLocal,
                  freshSample >>

\* autoClaim returns and the tick goes on (392-421 after line 390, 425 after
\* line 424).  With a bundle: every post has settled, the wait of sendBundle
\* ends and it counts (177, 188-190, then 290); a bundle that no builder has can
\* not be included.  With a transaction: tx.wait() fulfils or rejects (line 293).
Run_ClaimReturn(Inputs) ==
  /\ bot = "dynamic" /\ pc \in {"claim1", "claim2"}
  /\ posts # NULL \/ awaitingTx # NULL
  /\ posts # NULL => allSettled(posts)
  /\ \E in \in Inputs :
       LET c == autoClaim(in, USE_MEV_BUNDLE, rewards)
       IN  /\ claimEndsAfterSend(c, in, posts)
           /\ rewards' = c.rewards
           /\ lastClaim' = [outcome |-> c.outcome, read |-> c.read,
                            at |-> IF pc = "claim1" THEN "tick" ELSE "flush"]
  /\ posts' = NULL
  /\ awaitingTx' = NULL
  /\ IF pc = "claim1"
     THEN /\ Evaluate(newState, localView)
          /\ UNCHANGED lastFlushedEpoch
     ELSE /\ lastFlushedEpoch' = targetEpoch
          /\ pc' = "sleep"
          /\ UNCHANGED << targetEpoch, decision >>
  /\ UNCHANGED << Settings, readsInFlight, now, lastOnChainSeconds,
                  cachedOnChainState, AnchorVars, newState, localView, lastFlush, flushed,
                  dispatchedFor, sampleMonotone, lastLocal, prevLocal, freshSample >>

\* line 423, to the dispatch: tryFlush is called and returns before it has sent
\* anything (a failed read, the guard of line 199, a fault at or before the
\* dispatch), or it sends its transaction (its bundle) and awaits the outcome
Run_TryFlush(Inputs) ==
  /\ bot = "dynamic" /\ pc = "flush" /\ awaitingTx = NULL
  /\ \E in \in Inputs :
       LET f == tryFlush(in, EPOCH_WINDOW_SEC, USE_MEV_BUNDLE, rewards)
       IN  /\ flushed' = flushed \cup {targetEpoch}
           /\ IF f.dispatched
              THEN /\ awaitingTx' = [target |-> targetEpoch,
                                     repeated |-> (targetEpoch \in flushed),
                                     before |-> rewards, mined |-> FALSE]
                   /\ dispatchedFor' = dispatchedFor \cup {targetEpoch}
                   /\ posts' = IF USE_MEV_BUNDLE THEN allPending ELSE posts
                   /\ UNCHANGED << pc, rewards, lastFlush >>
              ELSE /\ rewards' = f.rewards
                   /\ lastFlush' =
                        [ target |-> targetEpoch, outcome |-> f.outcome,
                          returns |-> f.returns, dispatched |-> FALSE,
                          nodeOk |-> (in.read.ok /\ in.read.slotsPerEpoch # 0 /\ in.fault = "none"),
                          repeated |-> (targetEpoch \in flushed),
                          successCount |-> f.successCount ]
                   /\ pc' = "claim2"
                   /\ UNCHANGED << awaitingTx, dispatchedFor, posts >>
  /\ UNCHANGED << Settings, readsInFlight, now, lastOnChainSeconds,
                  cachedOnChainState, AnchorVars, lastFlushedEpoch, newState, localView,
                  targetEpoch, decision, lastClaim, sampleMonotone, lastLocal, prevLocal,
                  freshSample >>

\* a tick that claims only after a tryFlush that returned true
Run_FlushReturn_claimsOnSuccess(Inputs) ==
  /\ bot = "dynamic" /\ pc = "flush" /\ awaitingTx # NULL
  /\ posts # NULL => allSettled(posts)
  /\ \E in \in Inputs :
       LET f == tryFlush(IF posts # NULL THEN [in EXCEPT !.relays = posts] ELSE in,
                         EPOCH_WINDOW_SEC, USE_MEV_BUNDLE, awaitingTx.before)
       IN  /\ f.dispatched
           /\ posts = NULL =>
                 /\ awaitingTx.mined = ~(in.fault # "none" /\ in.faultAt = "wait")
                 /\ awaitingTx.mined => in.after = rewards
           /\ rewards' = f.rewards
           /\ lastFlush' =
                [ target |-> awaitingTx.target, outcome |-> f.outcome,
                  returns |-> f.returns, dispatched |-> TRUE,
                  nodeOk |-> (in.read.ok /\ in.read.slotsPerEpoch # 0 /\ in.fault = "none"),
                  repeated |-> awaitingTx.repeated,
                  successCount |-> f.successCount ]
           /\ pc' = IF f.returns THEN "claim2" ELSE "sleep"
  /\ awaitingTx' = NULL
  /\ posts' = NULL
  /\ UNCHANGED << Settings, readsInFlight, now, lastOnChainSeconds,
                  cachedOnChainState, AnchorVars, lastFlushedEpoch, newState, localView,
                  targetEpoch, decision, flushed, dispatchedFor, lastClaim,
                  sampleMonotone, lastLocal, prevLocal, freshSample >>

\* line 238: tx.wait() fulfils: the transaction was mined and the reward
\* contract has credited what the flush earned; tryFlush goes on to its second
\* rewardsOf (line 242)
Run_TxMined ==
  /\ bot = "dynamic" /\ pc = "flush" /\ awaitingTx # NULL /\ posts = NULL
  /\ ~awaitingTx.mined
  /\ rewards' \in {v \in RewardLevels : v >= rewards}
  /\ awaitingTx' = [awaitingTx EXCEPT !.mined = TRUE]
  /\ UNCHANGED << Settings, posts, pc, readsInFlight, now, lastOnChainSeconds,
                  cachedOnChainState, AnchorVars, lastFlushedEpoch, newState, localView,
                  targetEpoch, decision, lastFlush, flushed, dispatchedFor, lastClaim,
                  sampleMonotone, lastLocal, prevLocal, freshSample >>

\* tryFlush returns, then line 424.  With direct submission: tx.wait() rejects
\* (line 238, caught at 252), or after the transaction was mined the second
\* rewardsOf answers or rejects (lines 242-250).  With a bundle: every post has
\* settled, sendBundle counts and returns (177, 188-190, then 229-230).
Run_FlushReturn(Inputs) ==
  /\ bot = "dynamic" /\ pc = "flush" /\ awaitingTx # NULL
  /\ posts # NULL => allSettled(posts)
  /\ \E in \in Inputs :
       LET f == tryFlush(IF posts # NULL THEN [in EXCEPT !.relays = posts] ELSE in,
                         EPOCH_WINDOW_SEC, USE_MEV_BUNDLE, awaitingTx.before)
       IN  /\ f.dispatched
           /\ posts = NULL =>
                 /\ awaitingTx.mined = ~(in.fault # "none" /\ in.faultAt = "wait")
                 /\ awaitingTx.mined => in.after = rewards
           /\ rewards' = f.rewards
           /\ lastFlush' =
                [ target |-> awaitingTx.target, outcome |-> f.outcome,
                  returns |-> f.returns, dispatched |-> TRUE,
                  nodeOk |-> (in.read.ok /\ in.read.slotsPerEpoch # 0 /\ in.fault = "none"),
                  repeated |-> awaitingTx.repeated,
                  successCount |-> f.successCount ]
  /\ pc' = "claim2"
  /\ awaitingTx' = NULL
  /\ posts' = NULL
  /\ UNCHANGED << Settings, readsInFlight, now, lastOnChainSeconds,
                  cachedOnChainState, AnchorVars, lastFlushedEpoch, newState, localView,
                  targetEpoch, decision, flushed, dispatchedFor, lastClaim,
                  sampleMonotone, lastLocal, prevLocal, freshSample >>

\* lines 424-425; with a claim to send, line 424 up to the posts of sendBundle
\* or up to claimRewards()
Run_ClaimAfterFlush(Inputs) ==
  /\ bot = "dynamic" /\ pc = "claim2" /\ posts = NULL /\ awaitingTx = NULL
  /\ \E in \in Inputs :
       LET c == autoClaim(in, USE_MEV_BUNDLE, rewards)
       IN  IF claimEndsAtOnce(c)
           THEN /\ rewards' = c.rewards
                /\ lastClaim' = [outcome |-> c.outcome, read |-> c.read, at |-> "flush"]
                /\ lastFlushedEpoch' = targetEpoch
                /\ pc' = "sleep"
                /\ UNCHANGED << posts, awaitingTx >>
           ELSE /\ posts' = IF c.outcome = "bundle" THEN allPending ELSE posts
                /\ awaitingTx' = IF c.outcome = "claimed" THEN claimSent ELSE awaitingTx
                /\ UNCHANGED << pc, rewards, lastClaim, lastFlushedEpoch >>
  /\ UNCHANGED << Settings, readsInFlight, now, lastOnChainSeconds,
                  cachedOnChainState, AnchorVars, newState, localView, targetEpoch, decision,
                  lastFlush, flushed, dispatchedFor, sampleMonotone, lastLocal, prevLocal,
                  freshSample >>

\* line 431 (and 353): the poll interval
Run_Sleep ==
  /\ bot = "dynamic" /\ pc = "sleep"
  /\ now < (1 + MaxNowSec) * 1000
  /\ now' = now + CHECK_INTERVAL_MS
  /\ pc' = "tick"
  /\ newState' = NULL /\ localView' = NULL /\ targetEpoch' = -1
  /\ decision' = NULL /\ lastFlush' = NULL /\ lastClaim' = NULL
  /\ prevLocal' = NULL /\ freshSample' = FALSE
  /\ UNCHANGED << Config, readsInFlight, rewards, lastOnChainSeconds, cachedOnChainState, AnchorVars,
                  lastFlushedEpoch, flushed, dispatchedFor, sampleMonotone, lastLocal >>

\* A second of wall-clock time passes while the tick waits for the node or for a
\* transaction to be mined.
AwaitElapses ==
  /\ bot = "dynamic" /\ pc = "flush"
  /\ now < (1 + MaxNowSec) * 1000
  /\ now' = now + 1000
  /\ UNCHANGED << Config, readsInFlight, pc, rewards, lastOnChainSeconds, cachedOnChainState, AnchorVars,
                  lastFlushedEpoch, newState, localView, targetEpoch, decision,
                  lastFlush, flushed, dispatchedFor, lastClaim, sampleMonotone,
                  lastLocal, prevLocal, freshSample >>

\* the reads that a rejected Promise.all left behind settle
ReadsSettle ==
  /\ bot \in {"dynamic", "multi"} /\ readsInFlight
  /\ readsInFlight' = FALSE
  /\ UNCHANGED << Config, pc, now, rewards, lastOnChainSeconds, cachedOnChainState,
                  AnchorVars, lastFlushedEpoch, newState, localView, targetEpoch, decision,
                  lastFlush, flushed, dispatchedFor, lastClaim, sampleMonotone,
                  lastLocal, prevLocal, freshSample >>

----------------------------------------------------------------------------
(* part_000: sendBundle, post by post *)

\* lines 179-185: the post to builder b settles: axios.post resolves, or it
\* rejects or times out and the catch turns that into success: false
Bundle_Settle(b, answer) ==
  /\ bot = "dynamic" /\ pc \in {"claim1", "flush", "claim2"}
  /\ posts # NULL
  /\ posts[b] = "pending"
  /\ posts' = [posts EXCEPT ![b] = answer]
  /\ UNCHANGED << Settings, awaitingTx, pc, readsInFlight, now, rewards, lastOnChainSeconds,
                  cachedOnChainState, AnchorVars, lastFlushedEpoch, newState, localView,
                  targetEpoch, decision, lastFlush, flushed, dispatchedFor, lastClaim,
                  sampleMonotone, lastLocal, prevLocal, freshSample >>

\* the next post settles, whichever it is: the builders answer as one of Answers
\* says, in any order
Bundle_SettleAs(Answers) ==
  /\ posts # NULL
  /\ \E a \in Answers, b \in BUILDERS :
       /\ \A c \in BUILDERS : posts[c] \in {"pending", a[c]}
       /\ Bundle_Settle(b, a[b])

----------------------------------------------------------------------------
(* part_001: the multi-mode bot *)

\* lines 64-102; the failure cases are those of part_000
getOnChainState_multi(r, userReward) ==
  LET slotDur == r.slotDurationSec
      slotsPerEp == r.slotsPerEpoch
      epochNum == IF slotsPerEp > 0 THEN r.currentSlot \div slotsPerEp ELSE 0
      slotsIntoEpoch == r.currentSlot % slotsPerEp
      secondsIntoEpoch == slotsIntoEpoch * slotDur
  IN  [ currentSlot |-> r.currentSlot,
        slotDurationSec |-> slotDur,
        slotsPerEpoch |-> slotsPerEp,
        epochNum |-> epochNum,
        slotsIntoEpoch |-> slotsIntoEpoch,
        secondsIntoEpoch |-> secondsIntoEpoch,
        userReward |-> userReward ]

\* lines 213-215 and 230-253
evaluate_multi(mode, window, lead, state, mark) ==
  LET slotsUntilNextEpoch == state.slotsPerEpoch - state.slotsIntoEpoch
      secondsUntilNextEpoch == slotsUntilNextEpoch * state.slotDurationSec
  IN  IF mode = "block" THEN
        state.secondsIntoEpoch <= window /\ state.epochNum # mark
      ELSE IF mode = "local" THEN
        LET localSecondsInto == state.secondsIntoEpoch
        IN  localSecondsInto <= window /\ state.epochNum # mark
      ELSE IF mode = "pre" THEN
        secondsUntilNextEpoch <= lead /\ state.epochNum # mark
      ELSE FALSE

FlushInputs_multi(balance) ==
  { in \in [ fault : {"none", "no validators", "error"},
             faultAt : FaultPoints,
             after : {v \in RewardLevels : v >= balance} ] :
      in.fault = "none" => in.faultAt = "send" }

\* lines 105-151
tryFlush_multi(in, balance) ==
  IF in.fault # "none" /\ in.faultAt = "send"
  THEN [outcome |-> faultOutcome(in.fault), returns |-> FALSE, rewards |-> balance,
        dispatched |-> FALSE]
  ELSE IF in.fault # "none" /\ in.faultAt = "wait"
  THEN [outcome |-> faultOutcome(in.fault), returns |-> FALSE, rewards |-> balance,
        dispatched |-> TRUE]
  ELSE IF in.fault # "none"
  THEN [outcome |-> faultOutcome(in.fault), returns |-> FALSE, rewards |-> in.after,
        dispatched |-> TRUE]
  ELSE [outcome |-> "confirmed", returns |-> in.after - balance > 0, rewards |-> in.after,
        dispatched |-> TRUE]

\* lines 154-169
autoClaim_multi(in, balance) ==
  LET claimable == in.claimable # "false"
  IN  IF ~claimable
      THEN [outcome |-> "not_claimable", read |-> -1, rewards |-> balance]
      ELSE IF ~in.balanceOk
      THEN [outcome |-> "failed", read |-> -1, rewards |-> balance]
      ELSE IF balance > 0 /\ balance <= MAX_REWARD_TO_CLAIM
      THEN IF ~in.sendOk
           THEN [outcome |-> "failed", read |-> balance, rewards |-> balance]
           ELSE [outcome |-> "claimed", read |-> balance, rewards |-> 0]
      ELSE [outcome |-> "none", read |-> balance, rewards |-> balance]

ClaimInputs_multi ==
  [ claimable : {"true", "false", "error"}, balanceOk : BOOLEAN, sendOk : BOOLEAN,
    included : {FALSE} ]

DynamicIdle == << USE_MEV_BUNDLE, lastOnChainSeconds, cachedOnChainState, AnchorVars,
                  localView, sampleMonotone, lastLocal, prevLocal, freshSample, SpamOnly,
                  exit, posts, gas, clock, fanOut >>
DynamicOnly == << DynamicIdle, firstTick >>

\* lines 230-257: the policy and the branch
Evaluate_multi(state) ==
  LET fire == evaluate_multi(FLUSH_MODE, EPOCH_WINDOW_SEC, PRE_SEND_SECONDS, state,
                             lastFlushedEpoch)
  IN  /\ decision' = [ onchainSeconds |-> state.secondsIntoEpoch,
                       onchainEpoch |-> state.epochNum,
                       firedMark |-> lastFlushedEpoch,
                       shouldFlush |-> fire,
                       targetEpoch |-> state.epochNum ]
      /\ targetEpoch' = state.epochNum
      /\ pc' = IF fire THEN "flush" ELSE "sleep"

\* part_001:182: the balance read before the loop; a failure rejects run()
Multi_Initialize ==
  /\ bot = "multi" /\ pc = "start"
  /\ \E balanceOk \in BOOLEAN : pc' = IF balanceOk THEN "tick" ELSE "dead"
  /\ UNCHANGED << bot, now, blockTimestamp, rewards, FLUSH_MODE, PRE_SEND_SECONDS,
                  EPOCH_WINDOW_SEC, DynamicOnly, readsInFlight, awaitingTx, lastFlushedEpoch,
                  newState, targetEpoch, decision, lastFlush, flushed, dispatchedFor,
                  lastClaim >>

\* lines 193-228, and 230-257 when no claim is due; a failed read ends the tick
Multi_Sample ==
  /\ bot = "multi" /\ pc = "tick"
  /\ \E r \in NodeReads(now) :
       IF getOnChainStateThrows(r)
       THEN /\ pc' = catchLoopError
            /\ readsInFlight' \in siblingsPending(r)
            /\ UNCHANGED << newState, targetEpoch, decision >>
       ELSE LET state == getOnChainState_multi(r, rewards)
            IN  /\ newState' = state
                /\ readsInFlight' = FALSE
                /\ IF state.userReward > 0
                   THEN /\ pc' = "claim1"
                        /\ UNCHANGED << targetEpoch, decision >>
                   ELSE Evaluate_multi(state)
  /\ UNCHANGED << bot, now, blockTimestamp, rewards, FLUSH_MODE, PRE_SEND_SECONDS,
                  EPOCH_WINDOW_SEC, DynamicOnly, awaitingTx, lastFlushedEpoch, lastFlush, flushed,
                  dispatchedFor, lastClaim >>

\* line 228, then 230-257; with a claim to send, line 228 up to claimRewards()
\* (part_001:162)
Multi_ClaimIfDue ==
  /\ bot = "multi" /\ pc = "claim1" /\ awaitingTx = NULL
  /\ \E in \in ClaimInputs_multi :
       LET c == autoClaim_multi(in, rewards)
       IN  IF claimEndsAtOnce(c)
           THEN /\ rewards' = c.rewards
                /\ lastClaim' = [outcome |-> c.outcome, read |-> c.read, at |-> "tick"]
                /\ Evaluate_multi(newState)
                /\ UNCHANGED awaitingTx
           ELSE /\ awaitingTx' = claimSent
                /\ UNCHANGED << pc, rewards, lastClaim, targetEpoch, decision >>
  /\ UNCHANGED << bot, now, blockTimestamp, FLUSH_MODE, PRE_SEND_SECONDS,
                  EPOCH_WINDOW_SEC, DynamicOnly, readsInFlight, lastFlushedEpoch, newState,
                  lastFlush, flushed, dispatchedFor >>

\* part_001:163: tx.wait() fulfils or rejects, autoClaim returns and the tick
\* goes on (230-257 after line 228, 259 after line 258)
Multi_ClaimReturn ==
  /\ bot = "multi" /\ pc \in {"claim1", "claim2"} /\ awaitingTx # NULL
  /\ \E in \in ClaimInputs_multi :
       LET c == autoClaim_multi(in, rewards)
       IN  /\ claimEndsAfterSend(c, in, NULL)
           /\ rewards' = c.rewards
           /\ lastClaim' = [outcome |-> c.outcome, read |-> c.read,
                            at |-> IF pc = "claim1" THEN "tick" ELSE "flush"]
  /\ awaitingTx' = NULL
  /\ IF pc = "claim1"
     THEN /\ Evaluate_multi(newState)
          /\ UNCHANGED lastFlushedEpoch
     ELSE /\ lastFlushedEpoch' = newState.epochNum
          /\ pc' = "sleep"
          /\ UNCHANGED << targetEpoch, decision >>
  /\ UNCHANGED << bot, now, blockTimestamp, FLUSH_MODE, PRE_SEND_SECONDS,
                  EPOCH_WINDOW_SEC, DynamicOnly, readsInFlight, newState, lastFlush,
                  flushed, dispatchedFor >>

\* line 257, to the dispatch (part_001:107-123)
Multi_TryFlush ==
  /\ bot = "multi" /\ pc = "flush" /\ awaitingTx = NULL
  /\ \E in \in FlushInputs_multi(rewards) :
       LET f == tryFlush_multi(in, rewards)
       IN  /\ flushed' = flushed \cup {targetEpoch}
           /\ IF f.dispatched
              THEN /\ awaitingTx' = [target |-> targetEpoch,
                                     repeated |-> (targetEpoch \in flushed),
                                     before |-> rewards, mined |-> FALSE]
                   /\ dispatchedFor' = dispatchedFor \cup {targetEpoch}
                   /\ UNCHANGED << pc, rewards, lastFlush >>
              ELSE /\ rewards' = f.rewards
                   /\ lastFlush' =
                        [ target |-> targetEpoch, outcome |-> f.outcome,
                          returns |-> f.returns, dispatched |-> FALSE,
                          nodeOk |-> (in.fault = "none"),
                          repeated |-> (targetEpoch \in flushed) ]
                   /\ pc' = "claim2"
                   /\ UNCHANGED << awaitingTx, dispatchedFor >>
  /\ UNCHANGED << bot, now, blockTimestamp, FLUSH_MODE, PRE_SEND_SECONDS,
                  EPOCH_WINDOW_SEC, DynamicOnly, readsInFlight, lastFlushedEpoch, newState, targetEpoch,
                  decision, lastClaim >>

\* part_001:125: tx.wait() fulfils, the transaction was mined; tryFlush goes on
\* to its second rewardsOf (line 131)
Multi_TxMined ==
  /\ bot = "multi" /\ pc = "flush" /\ awaitingTx # NULL
  /\ ~awaitingTx.mined
  /\ rewards' \in {v \in RewardLevels : v >= rewards}
  /\ awaitingTx' = [awaitingTx EXCEPT !.mined = TRUE]
  /\ UNCHANGED << bot, pc, now, blockTimestamp, FLUSH_MODE, PRE_SEND_SECONDS,
                  EPOCH_WINDOW_SEC, DynamicOnly, readsInFlight, lastFlushedEpoch, newState,
                  targetEpoch, decision, lastFlush, flushed, dispatchedFor, lastClaim >>

\* tryFlush returns, then line 258: tx.wait() rejects (part_001:125, caught at
\* 143), or after the transaction was mined the second rewardsOf answers or
\* rejects (131-142)
Multi_FlushReturn ==
  /\ bot = "multi" /\ pc = "flush" /\ awaitingTx # NULL
  /\ \E in \in FlushInputs_multi(rewards) :
       LET f == tryFlush_multi(in, awaitingTx.before)
       IN  /\ f.dispatched
           /\ awaitingTx.mined = ~(in.fault # "none" /\ in.faultAt = "wait")
           /\ awaitingTx.mined => in.after = rewards
           /\ rewards' = f.rewards
           /\ lastFlush' =
                [ target |-> awaitingTx.target, outcome |-> f.outcome,
                  returns |-> f.returns, dispatched |-> TRUE,
                  nodeOk |-> (in.fault = "none"),
                  repeated |-> awaitingTx.repeated ]
  /\ pc' = "claim2"
  /\ awaitingTx' = NULL
  /\ UNCHANGED << bot, now, blockTimestamp, FLUSH_MODE, PRE_SEND_SECONDS,
                  EPOCH_WINDOW_SEC, DynamicOnly, readsInFlight, lastFlushedEpoch, newState, targetEpoch,
                  decision, flushed, dispatchedFor, lastClaim >>

\* lines 258-259; with a claim to send, line 258 up to claimRewards()
Multi_ClaimAfterFlush ==
  /\ bot = "multi" /\ pc = "claim2" /\ awaitingTx = NULL
  /\ \E in \in ClaimInputs_multi :
       LET c == autoClaim_multi(in, rewards)
       IN  IF claimEndsAtOnce(c)
           THEN /\ rewards' = c.rewards
                /\ lastClaim' = [outcome |-> c.outcome, read |-> c.read, at |-> "flush"]
                /\ lastFlushedEpoch' = newState.epochNum
                /\ pc' = "sleep"
                /\ UNCHANGED awaitingTx
           ELSE /\ awaitingTx' = claimSent
                /\ UNCHANGED << pc, rewards, lastClaim, lastFlushedEpoch >>
  /\ UNCHANGED << bot, now, blockTimestamp, FLUSH_MODE, PRE_SEND_SECONDS,
                  EPOCH_WINDOW_SEC, DynamicOnly, readsInFlight, newState, targetEpoch, decision,
                  lastFlush, flushed, dispatchedFor >>

\* line 265
Multi_Sleep ==
  /\ bot = "multi" /\ pc = "sleep"
  /\ now < (1 + MaxNowSec) * 1000
  /\ now' = now + CHECK_INTERVAL_MS
  /\ pc' = "tick"
  /\ newState' = NULL /\ targetEpoch' = -1
  /\ decision' = NULL /\ lastFlush' = NULL /\ lastClaim' = NULL
  /\ UNCHANGED << bot, blockTimestamp, rewards, FLUSH_MODE, PRE_SEND_SECONDS,
                  EPOCH_WINDOW_SEC, DynamicOnly, readsInFlight, awaitingTx, lastFlushedEpoch, flushed,
                  dispatchedFor >>

----------------------------------------------------------------------------
(* java.mjs: the genesis-based bot *)

\* The timestamps the latest block can carry: one second before genesis, and
\* around the flush window and the end of each epoch.
BlockTimestamps ==
  { GENESIS_TIMESTAMP - 1 } \cup
  { GENESIS_TIMESTAMP + k * EPOCH_DURATION_SEC + d :
      k \in 0 .. MaxGenesisEpochs,
      d \in { 0, GENESIS_EPOCH_WINDOW_SEC - 1, GENESIS_EPOCH_WINDOW_SEC,
              GENESIS_EPOCH_WINDOW_SEC + 1, EPOCH_DURATION_SEC - 1 } }

\* A BigInt amount of wei, kept as whole gwei and the wei below one gwei, so that
\* no intermediate value leaves the range of the model's integers.
Wei(g, w) == [gwei |-> g, wei |-> w]

\* a + b
WeiAdd(a, b) ==
  LET w == a.wei + b.wei
  IN  Wei(a.gwei + b.gwei + (w \div GWEI), w % GWEI)

\* a / 2n
WeiHalf(a) ==
  IF a.gwei % 2 = 1 THEN Wei(a.gwei \div 2, (a.wei + GWEI) \div 2)
  ELSE Wei(a.gwei \div 2, a.wei \div 2)

\* (a * f) / 100n, for 0 <= f <= 200
WeiMulDiv100(a, f) ==
  LET gf == a.gwei * f
      q == a.wei \div 100
      r == a.wei % 100
      qf == q * f
      low == (gf % 100) * (GWEI \div 100) + (qf % GWEI) + ((r * f) \div 100)
  IN  Wei((gf \div 100) + (qf \div GWEI) + (low \div GWEI), low % GWEI)

\* (a * f + 99) / 100n: the percentage rounded up
WeiMulDiv100Up(a, f) ==
  LET down == WeiMulDiv100(a, f)
  IN  IF ((a.wei % 100) * f) % 100 = 0 THEN down ELSE WeiAdd(down, Wei(0, 1))

\* lines 42-57: the base pair: the network's fields where they are not null, the
\* fixed defaults where they are, and the legacy gas price when maxFeePerGas is
\* null or zero and a gas price is reported
gasBase(feeData) ==
  LET maxPrio == feeData.maxPriorityFeePerGas
      maxFee == feeData.maxFeePerGas
      prio0 == IF maxPrio # NULL THEN maxPrio ELSE Wei(1, 0)
      fee0 == IF maxFee # NULL THEN maxFee ELSE Wei(2, 0)
  IN  IF (maxFee = NULL \/ fee0 = Wei(0, 0)) /\ feeData.gasPrice # NULL
      THEN [baseMaxPriority |-> WeiHalf(feeData.gasPrice), baseMaxFee |-> feeData.gasPrice]
      ELSE [baseMaxPriority |-> prio0, baseMaxFee |-> fee0]

\* getGasConfig with a percentage that is rounded up
getGasConfig_roundsUp(feeData, strategy, addGwei, percent) ==
  LET base == gasBase(feeData)
  IN  IF strategy = "aggressive"
      THEN [ maxPriorityFeePerGas |-> WeiAdd(base.baseMaxPriority, Wei(addGwei, 0)),
             maxFeePerGas |-> WeiAdd(base.baseMaxFee, Wei(addGwei, 0)) ]
      ELSE IF strategy = "percent"
      THEN [ maxPriorityFeePerGas |-> WeiMulDiv100Up(base.baseMaxPriority, 100 + percent),
             maxFeePerGas |-> WeiMulDiv100Up(base.baseMaxFee, 100 + percent) ]
      ELSE [ maxPriorityFeePerGas |-> base.baseMaxPriority,
             maxFeePerGas |-> base.baseMaxFee ]

\* lines 31-79
getGasConfig(feeData, strategy, addGwei, percent) ==
  LET base == gasBase(feeData)
  IN  IF strategy = "aggressive"
      THEN [ maxPriorityFeePerGas |-> WeiAdd(base.baseMaxPriority, Wei(addGwei, 0)),
             maxFeePerGas |-> WeiAdd(base.baseMaxFee, Wei(addGwei, 0)) ]
      ELSE IF strategy = "percent"
      THEN [ maxPriorityFeePerGas |-> WeiMulDiv100(base.baseMaxPriority, 100 + percent),
             maxFeePerGas |-> WeiMulDiv100(base.baseMaxFee, 100 + percent) ]
      ELSE [ maxPriorityFeePerGas |-> base.baseMaxPriority,
             maxFeePerGas |-> base.baseMaxFee ]

\* what provider.getFeeData() can report for one field: null, zero, amounts
\* below one gwei and whole gwei
FeeValues == { NULL, Wei(0, 0), Wei(0, 100), Wei(0, 999), Wei(1, 0), Wei(MaxFeeGwei, 0) }

FeeDatas ==
  [ maxPriorityFeePerGas : FeeValues, maxFeePerGas : FeeValues,
    gasPrice : {NULL, Wei(0, 0), Wei(0, 999), Wei(MaxFeeGwei, 0)} ]

\* a call of getGasConfig by tryFlush (lines 112-116): the strategy of the
\* environment, GAS_AGGRESSIVE_ADD_GWEI and GAS_PERCENT_INCREASE
GasCalls ==
  [ feeData : FeeDatas, strategy : {"auto", "aggressive", "percent"},
    addGwei : {1, 2}, percent : {20, MaxPercent} ]

\* lines 112-116: getGasConfig is called and returns
GetGasConfig ==
  /\ gas # NULL /\ gas.result = NULL
  /\ gas' = [gas EXCEPT !.result = getGasConfig(gas.call.feeData, gas.call.strategy,
                                                gas.call.addGwei, gas.call.percent)]
  /\ UNCHANGED << bot, pc, now, blockTimestamp, rewards, FLUSH_MODE, PRE_SEND_SECONDS,
                  EPOCH_WINDOW_SEC, USE_MEV_BUNDLE, lastOnChainSeconds, cachedOnChainState,
                  AnchorVars, localView, sampleMonotone, lastLocal, prevLocal, freshSample,
                  inSpamMode, spamProbe, readsInFlight, exit, posts, lastFlushedEpoch,
                  newState, targetEpoch, decision, lastFlush, flushed, dispatchedFor,
                  lastClaim, firstTick, clock, fanOut, awaitingTx >>

\* part_000:120-151: the anchors syncLocalToOnChain can leave (0 <= seconds <
\* duration, the duration positive) and the anchor of a bot that has not synced
\* (localStartTimeMs = 0), read between 0 and MaxElapsedSec seconds later
ClockDurations == { 1, SlotDurationSec, SlotDurationSec * SlotsPerEpoch }

ClockAnchors ==
  { Anchor(0, 0, DEFAULT_EPOCH_DURATION_SEC, 0) } \cup
  { a \in [ localStartTimeMs : {CHECK_INTERVAL_MS},
            localEpochStartSec : 0 .. (SlotDurationSec * SlotsPerEpoch - 1),
            localEpochDurationSec : ClockDurations,
            localCurrentEpoch : {0, MaxGenesisEpochs} ] :
      a.localEpochStartSec < a.localEpochDurationSec }

ClockCalls ==
  [ anchor : ClockAnchors,
    nowMs : { CHECK_INTERVAL_MS + elapsed * 1000 : elapsed \in 0 .. MaxElapsedSec } ]

\* part_000:369: getLocalTime is called and returns
GetLocalTime ==
  /\ clock # NULL /\ clock.result = NULL
  /\ clock' = [clock EXCEPT !.result = getLocalTime(clock.call.nowMs, clock.call.anchor)]
  /\ UNCHANGED << bot, pc, now, blockTimestamp, rewards, FLUSH_MODE, PRE_SEND_SECONDS,
                  EPOCH_WINDOW_SEC, USE_MEV_BUNDLE, lastOnChainSeconds, cachedOnChainState,
                  AnchorVars, localView, sampleMonotone, lastLocal, prevLocal, freshSample,
                  inSpamMode, spamProbe, readsInFlight, exit, posts, lastFlushedEpoch,
                  newState, targetEpoch, decision, lastFlush, flushed, dispatchedFor,
                  lastClaim, firstTick, gas, fanOut, awaitingTx >>

\* lines 86-88
getEpochInfoThrows(currentTimestamp) == currentTimestamp < GENESIS_TIMESTAMP

\* getEpochInfo with an epoch that ends one second late
getEpochInfo_lateBoundary(currentTimestamp) ==
  LET elapsedTime == currentTimestamp - GENESIS_TIMESTAMP
      currentEpoch == IF elapsedTime = 0 THEN 0 ELSE (elapsedTime - 1) \div EPOCH_DURATION_SEC
      secondsIntoEpoch == elapsedTime - currentEpoch * EPOCH_DURATION_SEC
      epochStartSec == GENESIS_TIMESTAMP + currentEpoch * EPOCH_DURATION_SEC
      epochEndSec == epochStartSec + EPOCH_DURATION_SEC
  IN  [ blockTimestamp |-> currentTimestamp,
        currentEpoch |-> currentEpoch,
        epochStartSec |-> epochStartSec,
        epochEndSec |-> epochEndSec,
        isEarly |-> secondsIntoEpoch < EPOCH_WINDOW_SEC,
        secondsIntoEpoch |-> secondsIntoEpoch ]

\* lines 90-103
getEpochInfo(currentTimestamp) ==
  LET elapsedTime == currentTimestamp - GENESIS_TIMESTAMP
      currentEpoch == elapsedTime \div EPOCH_DURATION_SEC
      secondsIntoEpoch == elapsedTime % EPOCH_DURATION_SEC
      epochStartSec == GENESIS_TIMESTAMP + currentEpoch * EPOCH_DURATION_SEC
      epochEndSec == epochStartSec + EPOCH_DURATION_SEC
  IN  [ blockTimestamp |-> currentTimestamp,
        currentEpoch |-> currentEpoch,
        epochStartSec |-> epochStartSec,
        epochEndSec |-> epochEndSec,
        isEarly |-> secondsIntoEpoch < EPOCH_WINDOW_SEC,
        secondsIntoEpoch |-> secondsIntoEpoch ]

\* lines 107-149
tryFlush_simple(in, balance) ==
  IF in.fault # "none" /\ in.faultAt = "send"
  THEN [outcome |-> faultOutcome(in.fault), returns |-> FALSE, rewards |-> balance,
        dispatched |-> FALSE]
  ELSE IF in.fault # "none" /\ in.faultAt = "wait"
  THEN [outcome |-> faultOutcome(in.fault), returns |-> FALSE, rewards |-> balance,
        dispatched |-> TRUE]
  ELSE IF in.fault # "none"
  THEN [outcome |-> faultOutcome(in.fault), returns |-> FALSE, rewards |-> in.after,
        dispatched |-> TRUE]
  ELSE [outcome |-> "confirmed", returns |-> in.after - balance > 0, rewards |-> in.after,
        dispatched |-> TRUE]

ClaimInputs_simple == [ balanceOk : BOOLEAN, sendOk : BOOLEAN ]

\* autoClaim of java.mjs without the ceiling
autoClaim_simple_noCeiling(in, balance) ==
  IF ~in.balanceOk
  THEN [outcome |-> "failed", read |-> -1, rewards |-> balance]
  ELSE IF balance > 0
  THEN IF ~in.sendOk
       THEN [outcome |-> "failed", read |-> balance, rewards |-> balance]
       ELSE [outcome |-> "claimed", read |-> balance, rewards |-> 0]
  ELSE [outcome |-> "none", read |-> balance, rewards |-> balance]

\* lines 152-167
autoClaim_simple(in, balance) ==
  IF ~in.balanceOk
  THEN [outcome |-> "failed", read |-> -1, rewards |-> balance]
  ELSE IF balance > 0 /\ balance <= MAX_REWARD_TO_CLAIM
  THEN IF ~in.sendOk
       THEN [outcome |-> "failed", read |-> balance, rewards |-> balance]
       ELSE [outcome |-> "claimed", read |-> balance, rewards |-> 0]
  ELSE IF balance > MAX_REWARD_TO_CLAIM
  THEN [outcome |-> "warned", read |-> balance, rewards |-> balance]
  ELSE [outcome |-> "none", read |-> balance, rewards |-> balance]

\* lines 223-224
Evaluate_simple(info) ==
  LET fire == info.isEarly /\ info.currentEpoch # lastFlushedEpoch
  IN  /\ decision' = [ onchainSeconds |-> info.secondsIntoEpoch,
                       onchainEpoch |-> info.currentEpoch,
                       firedMark |-> lastFlushedEpoch,
                       shouldFlush |-> fire,
                       targetEpoch |-> info.currentEpoch ]
      /\ targetEpoch' = info.currentEpoch
      /\ pc' = IF fire THEN "flush" ELSE "sleep"

SlotOnly == << FLUSH_MODE, PRE_SEND_SECONDS, EPOCH_WINDOW_SEC, DynamicOnly, awaitingTx,
              readsInFlight >>

\* line 176: the balance read before the loop; a failure rejects runForever()
Simple_Initialize ==
  /\ bot = "simple" /\ pc = "start"
  /\ \E balanceOk \in BOOLEAN : pc' = IF balanceOk THEN "tick" ELSE "dead"
  /\ UNCHANGED << bot, now, blockTimestamp, rewards, SlotOnly, lastFlushedEpoch, newState,
                  targetEpoch, decision, lastFlush, flushed, dispatchedFor, lastClaim >>

\* lines 186-218, and 223-224 when no claim is due; a throw ends the tick (229-231)
Simple_Sample ==
  /\ bot = "simple" /\ pc = "tick"
  /\ \/ /\ pc' = catchLoopError                        \* getBlock('latest') fails
        /\ UNCHANGED << blockTimestamp, newState, targetEpoch, decision >>
     \/ \E ts \in {t \in BlockTimestamps : t >= blockTimestamp}, statusOk \in BOOLEAN :
          /\ blockTimestamp' = ts
          /\ IF getEpochInfoThrows(ts)
             THEN /\ pc' = catchLoopError
                  /\ UNCHANGED << newState, targetEpoch, decision >>
             ELSE LET info == getEpochInfo(ts)
                      rewardsShown == IF statusOk THEN rewards ELSE 0
                  IN  /\ newState' = info
                      /\ IF rewardsShown # 0
                         THEN /\ pc' = "claim1"
                              /\ UNCHANGED << targetEpoch, decision >>
                         ELSE Evaluate_simple(info)
  /\ UNCHANGED << bot, now, rewards, SlotOnly, lastFlushedEpoch, lastFlush, flushed,
                  dispatchedFor, lastClaim >>

\* lines 216-218, then 223-224
Simple_ClaimIfDue ==
  /\ bot = "simple" /\ pc = "claim1"
  /\ \E in \in ClaimInputs_simple :
       LET c == autoClaim_simple(in, rewards)
       IN  /\ rewards' = c.rewards
           /\ lastClaim' = [outcome |-> c.outcome, read |-> c.read, at |-> "tick"]
  /\ Evaluate_simple(newState)
  /\ UNCHANGED << bot, now, blockTimestamp, SlotOnly, lastFlushedEpoch, newState,
                  lastFlush, flushed, dispatchedFor >>

\* line 224
Simple_TryFlush ==
  /\ bot = "simple" /\ pc = "flush"
  /\ \E in \in FlushInputs_multi(rewards) :
       LET f == tryFlush_simple(in, rewards)
       IN  /\ rewards' = f.rewards
           /\ lastFlush' =
                [ target |-> targetEpoch, outcome |-> f.outcome, returns |-> f.returns,
                  dispatched |-> f.dispatched,
                  nodeOk |-> (in.fault = "none"),
                  repeated |-> (targetEpoch \in flushed) ]
           /\ flushed' = flushed \cup {targetEpoch}
           /\ dispatchedFor' = IF f.dispatched
                               THEN dispatchedFor \cup {targetEpoch}
                               ELSE dispatchedFor
  /\ pc' = "claim2"
  /\ UNCHANGED << bot, now, blockTimestamp, SlotOnly, lastFlushedEpoch, newState,
                  targetEpoch, decision, lastClaim >>

\* lines 225-226
Simple_ClaimAfterFlush ==
  /\ bot = "simple" /\ pc = "claim2"
  /\ \E in \in ClaimInputs_simple :
       LET c == autoClaim_simple(in, rewards)
       IN  /\ rewards' = c.rewards
           /\ lastClaim' = [outcome |-> c.outcome, read |-> c.read, at |-> "flush"]
  /\ lastFlushedEpoch' = newState.currentEpoch
  /\ pc' = "sleep"
  /\ UNCHANGED << bot, now, blockTimestamp, SlotOnly, newState, targetEpoch, decision,
                  lastFlush, flushed, dispatchedFor >>

\* line 234
Simple_Sleep ==
  /\ bot = "simple" /\ pc = "sleep"
  /\ pc' = "tick"
  /\ newState' = NULL /\ targetEpoch' = -1
  /\ decision' = NULL /\ lastFlush' = NULL /\ lastClaim' = NULL
  /\ firstTick' = FALSE
  /\ UNCHANGED << bot, now, blockTimestamp, rewards, FLUSH_MODE, PRE_SEND_SECONDS,
                  EPOCH_WINDOW_SEC, DynamicIdle, readsInFlight, awaitingTx, lastFlushedEpoch, flushed,
                  dispatchedFor >>

----------------------------------------------------------------------------
(* part_000 lines 442-711: the spam-mode genesis bot *)

\* lines 525-548, the code of java.mjs
getEpochInfo_spam(currentTimestamp) == getEpochInfo(currentTimestamp)

\* lines 567-609
tryFlush_spam(in, balance) == tryFlush_simple(in, balance)

\* lines 611-626, the code of java.mjs
autoClaim_spam(in, balance) == autoClaim_simple(in, balance)

\* Date.now() - block.timestamp * 1000 when the bot reads the wall clock
ClockLeadsMs == { k * 1000 : k \in 0 .. MaxClockLeadSec }

\* line 681: the number of probes of one spam mode
SpamProbes == SPAM_DURATION_SEC * (1000 \div SPAM_INTERVAL_MS)

\* the locals of a tick, at the start of an iteration of the loop
Spam_NewIteration ==
  /\ newState' = NULL /\ targetEpoch' = -1
  /\ decision' = NULL /\ lastFlush' = NULL /\ lastClaim' = NULL
  /\ spamProbe' = 0
  /\ firstTick' = FALSE

SpamIdle == << FLUSH_MODE, PRE_SEND_SECONDS, EPOCH_WINDOW_SEC, USE_MEV_BUNDLE,
               lastOnChainSeconds, cachedOnChainState, AnchorVars, localView,
               sampleMonotone, lastLocal, prevLocal, freshSample, lastFlushedEpoch,
               readsInFlight, exit, posts, gas, clock, fanOut, awaitingTx >>
SpamUnused == << SpamIdle, firstTick >>

\* lines 673-704: spam mode, or the flush of the window
Spam_Decide(info, leadMs) ==
  LET msUntilNextEpoch == (info.epochEndSec - info.blockTimestamp) * 1000 - leadMs
      shouldSpam == msUntilNextEpoch > 0 /\ msUntilNextEpoch < SPAM_LEAD_MS
      spam == inSpamMode \/ shouldSpam
  IN  /\ inSpamMode' = spam
      /\ spamProbe' = 0
      /\ decision' = [ onchainSeconds |-> info.secondsIntoEpoch,
                       onchainEpoch |-> info.currentEpoch,
                       firedMark |-> lastFlushedEpoch,
                       shouldFlush |-> (~spam /\ info.isEarly),
                       targetEpoch |-> info.currentEpoch ]
      /\ targetEpoch' = info.currentEpoch
      /\ pc' = IF spam THEN "spam" ELSE IF info.isEarly THEN "flush" ELSE "sleep"

\* lines 634-635: the balance read before the loop; a failure rejects runForever()
Spam_Initialize ==
  /\ bot = "spam" /\ pc = "start"
  /\ \E balanceOk \in BOOLEAN : pc' = IF balanceOk THEN "tick" ELSE "dead"
  /\ UNCHANGED << bot, now, blockTimestamp, rewards, SpamUnused, SpamOnly, newState,
                  targetEpoch, decision, lastFlush, flushed, dispatchedFor, lastClaim >>

\* lines 644-675, and 673-704 when no claim is due; a throw ends the tick (701-703)
Spam_Sample ==
  /\ bot = "spam" /\ pc = "tick"
  /\ \/ /\ pc' = catchLoopError                        \* getBlock('latest') fails
        /\ UNCHANGED << blockTimestamp, newState, targetEpoch, decision, SpamOnly >>
     \/ \E ts \in {t \in BlockTimestamps : t >= blockTimestamp}, statusOk \in BOOLEAN,
           leadMs \in ClockLeadsMs :
          /\ blockTimestamp' = ts
          /\ IF getEpochInfoThrows(ts)
             THEN /\ pc' = catchLoopError
                  /\ UNCHANGED << newState, targetEpoch, decision, SpamOnly >>
             ELSE LET info == getEpochInfo_spam(ts)
                      rewardsShown == IF statusOk THEN rewards ELSE 0
                  IN  /\ newState' = info
                      /\ IF rewardsShown # 0
                         THEN /\ pc' = "claim1"
                              /\ UNCHANGED << targetEpoch, decision, SpamOnly >>
                         ELSE Spam_Decide(info, leadMs)
  /\ UNCHANGED << bot, now, rewards, SpamUnused, lastFlush, flushed, dispatchedFor,
                  lastClaim >>

\* lines 669-671, then 673-704
Spam_ClaimIfDue ==
  /\ bot = "spam" /\ pc = "claim1"
  /\ \E in \in ClaimInputs_simple, leadMs \in ClockLeadsMs :
       LET c == autoClaim_spam(in, rewards)
       IN  /\ rewards' = c.rewards
           /\ lastClaim' = [outcome |-> c.outcome, read |-> c.read, at |-> "tick"]
           /\ Spam_Decide(newState, leadMs)
  /\ UNCHANGED << bot, now, blockTimestamp, SpamUnused, newState, lastFlush, flushed,
                  dispatchedFor >>

\* lines 681-691: one probe of the spam loop; a throw leaves the loop and the
\* tick (701-703) with inSpamMode as it is
Spam_Probe ==
  /\ bot = "spam" /\ pc = "spam" /\ spamProbe < SpamProbes
  /\ \/ /\ pc' = catchLoopError                        \* getBlock('latest') fails
        /\ UNCHANGED << blockTimestamp, newState, targetEpoch, spamProbe >>
     \/ \E ts \in {t \in BlockTimestamps : t >= blockTimestamp} :
          /\ blockTimestamp' = ts
          /\ LET freshInfo == getEpochInfo_spam(ts)
             IN  IF freshInfo.isEarly
                 THEN /\ newState' = freshInfo
                      /\ targetEpoch' = freshInfo.currentEpoch
                      /\ pc' = "spamflush"
                      /\ UNCHANGED spamProbe
                 ELSE /\ spamProbe' = spamProbe + 1
                      /\ UNCHANGED << pc, newState, targetEpoch >>
  /\ UNCHANGED << bot, now, rewards, SpamUnused, inSpamMode, decision, lastFlush,
                  flushed, dispatchedFor, lastClaim >>

\* lines 681 and 693-694: the probes are used up; `continue` starts the next
\* iteration without the sleep of line 706
Spam_LeaveSpamMode ==
  /\ bot = "spam" /\ pc = "spam" /\ spamProbe = SpamProbes
  /\ inSpamMode' = FALSE
  /\ pc' = "tick"
  /\ Spam_NewIteration
  /\ UNCHANGED << bot, now, blockTimestamp, rewards, SpamIdle, flushed, dispatchedFor >>

\* lines 685 and 698
Spam_TryFlush ==
  /\ bot = "spam" /\ pc \in {"flush", "spamflush"}
  /\ \E in \in FlushInputs_multi(rewards) :
       LET f == tryFlush_spam(in, rewards)
       IN  /\ rewards' = f.rewards
           /\ lastFlush' =
                [ target |-> targetEpoch, outcome |-> f.outcome, returns |-> f.returns,
                  dispatched |-> f.dispatched,
                  nodeOk |-> (in.fault = "none"),
                  repeated |-> (targetEpoch \in flushed) ]
           /\ flushed' = flushed \cup {targetEpoch}
           /\ dispatchedFor' = IF f.dispatched
                               THEN dispatchedFor \cup {targetEpoch}
                               ELSE dispatchedFor
  /\ pc' = IF pc = "flush" THEN "claim2" ELSE "spamclaim"
  /\ UNCHANGED << bot, now, blockTimestamp, SpamUnused, SpamOnly, newState, targetEpoch,
                  decision, lastClaim >>

\* lines 686-687, and line 699
Spam_ClaimAfterFlush ==
  /\ bot = "spam" /\ pc \in {"claim2", "spamclaim"}
  /\ \E in \in ClaimInputs_simple :
       LET c == autoClaim_spam(in, rewards)
       IN  /\ rewards' = c.rewards
           /\ lastClaim' = [outcome |-> c.outcome, read |-> c.read, at |-> "flush"]
  /\ pc' = IF pc = "spamclaim" THEN "spamdone" ELSE "sleep"
  /\ UNCHANGED << bot, now, blockTimestamp, SpamUnused, SpamOnly, newState, targetEpoch,
                  decision, lastFlush, flushed, dispatchedFor >>

\* lines 688 and 693-694: break, leave spam mode, and the next iteration without
\* the sleep of line 706
Spam_Continue ==
  /\ bot = "spam" /\ pc = "spamdone"
  /\ inSpamMode' = FALSE
  /\ pc' = "tick"
  /\ Spam_NewIteration
  /\ UNCHANGED << bot, now, blockTimestamp, rewards, SpamIdle, flushed, dispatchedFor >>

\* line 706
Spam_Sleep ==
  /\ bot = "spam" /\ pc = "sleep"
  /\ pc' = "tick"
  /\ Spam_NewIteration
  /\ UNCHANGED << bot, now, blockTimestamp, rewards, SpamIdle, inSpamMode, flushed,
                  dispatchedFor >>

----------------------------------------------------------------------------
(* part_000:223-228, 284-289, 390-426: the bundles of a firing tick *)

\* fanOut.early, fanOut.flush and fanOut.claim are the signed transactions (nonce
\* and target block) of the autoClaim of line 390, of tryFlush and of the
\* autoClaim of line 424; fanOut.call says which of the two autoClaim calls
\* runs, fanOut.sent the bundles the builders have, fanOut.included the ones
\* that were mined; blockNumber and txCount are the answers of the node.
FanOutRest ==
  << bot, pc, now, blockTimestamp, rewards, FLUSH_MODE, PRE_SEND_SECONDS,
     EPOCH_WINDOW_SEC, USE_MEV_BUNDLE, lastOnChainSeconds, cachedOnChainState,
     AnchorVars, localView, sampleMonotone, lastLocal, prevLocal, freshSample,
     inSpamMode, spamProbe, readsInFlight, exit, posts, lastFlushedEpoch,
     newState, targetEpoch, decision, lastFlush, flushed, dispatchedFor,
     lastClaim, firstTick, gas, clock, awaitingTx >>

\* the bundle that the running autoClaim call builds
FanOutClaimOf(call) == IF call = "tick" THEN "early" ELSE "claim"

\* where the tick goes on when the running autoClaim call has returned
FanOutAfterClaim(call) == IF call = "tick" THEN "flushNonce" ELSE "done"

\* line 390: if (newState.userReward > 0n) await autoClaim(), then the policy
\* fires (392-421)
FanOut_TickClaim ==
  /\ fanOut # NULL /\ fanOut.at = "tickClaim"
  /\ fanOut' = [fanOut EXCEPT !.at = IF fanOut.userReward > 0 THEN "claimRead"
                                     ELSE "flushNonce"]
  /\ UNCHANGED FanOutRest

\* line 224: getTransactionCount(wallet.address, "pending"); a bundle is not in
\* the node's pool, so the count is the number of mined transactions
FanOut_FlushNonce ==
  /\ fanOut # NULL /\ fanOut.at = "flushNonce"
  /\ fanOut' = [fanOut EXCEPT !.at = "flushTarget",
                              !.flush = [nonce |-> fanOut.txCount, targetBlock |-> -1]]
  /\ UNCHANGED FanOutRest

\* line 226: targetBlock = getBlockNumber() + 2
FanOut_FlushTarget ==
  /\ fanOut # NULL /\ fanOut.at = "flushTarget"
  /\ fanOut' = [fanOut EXCEPT !.at = "flushSend",
                              !.flush.targetBlock = fanOut.blockNumber + 2]
  /\ UNCHANGED FanOutRest

\* line 228, then 229-230 and 423-424: sendBundle returns, tryFlush returns,
\* autoClaim starts
FanOut_FlushSend ==
  /\ fanOut # NULL /\ fanOut.at = "flushSend"
  /\ fanOut' = [fanOut EXCEPT !.at = "claimRead", !.call = "flush",
                              !.sent = @ \cup {"flush"}]
  /\ UNCHANGED FanOutRest

\* lines 263-268: autoClaim returns when isRewardsClaimable() answers false (an
\* error counts as true); else the balance it reads, and the range test
FanOut_ClaimRead ==
  /\ fanOut # NULL /\ fanOut.at = "claimRead"
  /\ \E claimable \in {"true", "false", "error"} :
       fanOut' = [fanOut EXCEPT !.at = IF /\ claimable # "false"
                                          /\ fanOut.balance > 0
                                          /\ fanOut.balance <= MAX_REWARD_TO_CLAIM
                                       THEN "claimNonce"
                                       ELSE FanOutAfterClaim(fanOut.call)]
  /\ UNCHANGED FanOutRest

\* line 285
FanOut_ClaimNonce ==
  /\ fanOut # NULL /\ fanOut.at = "claimNonce"
  /\ fanOut' = [fanOut EXCEPT !.at = "claimTarget",
                              ![FanOutClaimOf(fanOut.call)] =
                                 [nonce |-> fanOut.txCount, targetBlock |-> -1]]
  /\ UNCHANGED FanOutRest

\* line 287
FanOut_ClaimTarget ==
  /\ fanOut # NULL /\ fanOut.at = "claimTarget"
  /\ fanOut' = [fanOut EXCEPT !.at = "claimSend",
                              ![FanOutClaimOf(fanOut.call)].targetBlock =
                                 fanOut.blockNumber + 2]
  /\ UNCHANGED FanOutRest

\* line 289, then 290: sendBundle returns, autoClaim returns
FanOut_ClaimSend ==
  /\ fanOut # NULL /\ fanOut.at = "claimSend"
  /\ fanOut' = [fanOut EXCEPT !.at = FanOutAfterClaim(fanOut.call),
                              !.sent = @ \cup {FanOutClaimOf(fanOut.call)}]
  /\ UNCHANGED FanOutRest

\* the transaction of bundle k
FanOutTx(k) == fanOut[k]

\* The chain mines a block. A builder can put a bundle it has into its target
\* block, if the transaction's nonce is the account's next one; of two
\* transactions with one nonce a block holds at most one.
FanOut_Mine ==
  /\ fanOut # NULL /\ fanOut.blockNumber < MaxBlocks
  /\ LET n == fanOut.blockNumber + 1
         eligible == { k \in fanOut.sent \ fanOut.included :
                         /\ FanOutTx(k).targetBlock = n
                         /\ FanOutTx(k).nonce = fanOut.txCount }
     IN  \E inc \in SUBSET eligible :
           /\ Cardinality(inc) <= 1
           /\ fanOut' = [fanOut EXCEPT
                           !.blockNumber = n,
                           !.txCount = @ + Cardinality(inc),
                           !.included = @ \cup inc,
                           !.balance = IF inc \cap {"early", "claim"} # {} THEN 0
                                       ELSE IF "flush" \in inc /\ fanOut.earns > @
                                       THEN fanOut.earns ELSE @]
  /\ UNCHANGED FanOutRest

----------------------------------------------------------------------------
(* part_000:437-440 and part_001:271-274: the SIGINT handler *)

\* process.exit(0), wherever the loop is
onSIGINT(position) == [code |-> 0, during |-> position]

\* The signal arrives: the handler runs between two steps of the loop and ends
\* the process; its memory is gone, what it awaited is abandoned.
Interrupt ==
  /\ bot \in {"dynamic", "multi"} /\ pc # "exited"
  /\ pc = "dead" => readsInFlight
  /\ exit' = onSIGINT(pc)
  /\ pc' = "exited"
  /\ lastOnChainSeconds' = -1 /\ cachedOnChainState' = NULL
  /\ localStartTimeMs' = 0 /\ localEpochStartSec' = 0
  /\ localEpochDurationSec' = DEFAULT_EPOCH_DURATION_SEC /\ localCurrentEpoch' = 0
  /\ lastFlushedEpoch' = -1
  /\ newState' = NULL /\ localView' = NULL /\ targetEpoch' = -1
  /\ decision' = NULL /\ lastFlush' = NULL /\ lastClaim' = NULL
  /\ lastLocal' = NULL /\ prevLocal' = NULL /\ freshSample' = FALSE
  /\ readsInFlight' = FALSE
  /\ UNCHANGED << bot, now, blockTimestamp, rewards, FLUSH_MODE, PRE_SEND_SECONDS,
                  EPOCH_WINDOW_SEC, USE_MEV_BUNDLE, SpamOnly, flushed, dispatchedFor,
                  sampleMonotone, posts, gas, clock, fanOut,
                  firstTick, awaitingTx >>

----------------------------------------------------------------------------

\* The process after its module has been loaded.  The fan-out to the builders
\* is taken with the policy 'block' and the widest window (tryFlush, autoClaim
\* and sendBundle do not read FLUSH_MODE), in a process that is started when
\* the chain is FanOutStartSec seconds old; the other processes start with the
\* chain.
InitProcess ==
  /\ bot \in {"dynamic", "multi", "simple", "spam"}
  /\ pc = "start"
  /\ blockTimestamp = IF bot \in {"simple", "spam"} THEN GENESIS_TIMESTAMP - 1 ELSE 0
  /\ rewards = 0
  /\ FLUSH_MODE \in IF bot = "dynamic" THEN {"block", "local", "pre", "local-pre"}
                    ELSE IF bot = "multi" THEN {"block", "local", "pre"}
                    ELSE {"block"}
  /\ PRE_SEND_SECONDS \in IF FLUSH_MODE \in {"pre", "local-pre"}
                          THEN 1 .. MaxLeadSec ELSE {MaxLeadSec}
  /\ EPOCH_WINDOW_SEC \in IF bot \in {"simple", "spam"} THEN {GENESIS_EPOCH_WINDOW_SEC}
                          ELSE {0, MaxWindowSec}
  /\ USE_MEV_BUNDLE \in IF bot = "dynamic" /\ FLUSH_MODE = "block"
                             /\ EPOCH_WINDOW_SEC = MaxWindowSec
                          THEN BOOLEAN ELSE {FALSE}
  /\ now = IF USE_MEV_BUNDLE THEN FanOutStartSec * 1000 ELSE 1000
  /\ lastOnChainSeconds = -1
  /\ cachedOnChainState = NULL
  /\ localStartTimeMs = 0
  /\ localEpochStartSec = 0
  /\ localEpochDurationSec = DEFAULT_EPOCH_DURATION_SEC
  /\ localCurrentEpoch = 0
  /\ lastFlushedEpoch = -1
  /\ newState = NULL
  /\ localView = NULL
  /\ targetEpoch = -1
  /\ decision = NULL
  /\ lastFlush = NULL
  /\ flushed = {}
  /\ dispatchedFor = {}
  /\ lastClaim = NULL
  /\ sampleMonotone = TRUE
  /\ lastLocal = NULL
  /\ prevLocal = NULL
  /\ freshSample = FALSE
  /\ inSpamMode = FALSE
  /\ spamProbe = 0
  /\ readsInFlight = FALSE
  /\ exit = NULL
  /\ posts = NULL
  /\ firstTick = TRUE
  /\ awaitingTx = NULL

Init ==
  /\ InitProcess
  /\ gas = NULL
  /\ clock = NULL
  /\ fanOut = NULL

\* the steps of the four bots, with builders that answer as one of Answers says
LoopOf(Answers) ==
  \/ Run_Initialize(NodeReads(now))
  \/ Run_Sample(NodeReads(now))
  \/ Run_ClaimIfDue(ClaimInputs)
  \/ Run_ClaimReturn(ClaimInputs)
  \/ Bundle_SettleAs(Answers)
  \/ Run_TryFlush(FlushInputs(now, rewards))
  \/ Run_TxMined
  \/ Run_FlushReturn(FlushInputs(now, rewards))
  \/ Run_ClaimAfterFlush(ClaimInputs)
  \/ Run_Sleep
  \/ AwaitElapses
  \/ ReadsSettle
  \/ Multi_Initialize
  \/ Multi_Sample
  \/ Multi_ClaimIfDue
  \/ Multi_ClaimReturn
  \/ Multi_TryFlush
  \/ Multi_TxMined
  \/ Multi_FlushReturn
  \/ Multi_ClaimAfterFlush
  \/ Multi_Sleep
  \/ Simple_Initialize
  \/ Simple_Sample
  \/ Simple_ClaimIfDue
  \/ Simple_TryFlush
  \/ Simple_ClaimAfterFlush
  \/ Simple_Sleep
  \/ Spam_Initialize
  \/ Spam_Sample
  \/ Spam_ClaimIfDue
  \/ Spam_Probe
  \/ Spam_LeaveSpamMode
  \/ Spam_TryFlush
  \/ Spam_ClaimAfterFlush
  \/ Spam_Continue
  \/ Spam_Sleep

PollLoop == LoopOf(RelayAnswers)

\* the poll loop with builders of which some accept, some reject and one does
\* not answer
PollLoopLive == LoopOf({a \in RelayAnswers : \E b, c \in BUILDERS : a[b] # a[c]})

Next ==
  \/ PollLoop
  \/ Interrupt

Spec == Init /\ [][Next]_vars

\* The event loop runs every continuation that is ready and every timer that is
\* due: a step that can be taken is taken.  No signal arrives.
\* the four bots, those of part_000 and part_001 in mode 'block'
InitLive ==
  /\ Init
  /\ FLUSH_MODE = "block"
  /\ EPOCH_WINDOW_SEC \in {MaxWindowSec, GENESIS_EPOCH_WINDOW_SEC}

SpecLive == InitLive /\ [][PollLoopLive]_vars /\ WF_vars(PollLoopLive)

\* The bots with a node that follows the head, no failing call, and ticks at the
\* poll interval.
NextIdeal ==
  \/ Run_Initialize(CurrentReads(now))
  \/ Run_Sample(CurrentReads(now))
  \/ Run_ClaimIfDue(ClaimInputsOk)
  \/ Run_ClaimReturn(ClaimInputsOk)
  \/ Bundle_SettleAs({a \in RelayAnswers : \A b \in BUILDERS : a[b] = "accepted"})
  \/ Run_TryFlush(FlushInputsOk(now, rewards))
  \/ Run_TxMined
  \/ Run_FlushReturn(FlushInputsOk(now, rewards))
  \/ Run_ClaimAfterFlush(ClaimInputsOk)
  \/ Run_Sleep

InitIdeal == Init /\ bot = "dynamic"

SpecIdeal == InitIdeal /\ [][NextIdeal]_vars

\* The dynamic-sync bot in fan-out mode with a node that follows the head, and
\* sendBundle taken post by post: the builders answer in any order.
NextBundle ==
  \/ Run_Initialize(CurrentReads(now))
  \/ Run_Sample(CurrentReads(now))
  \/ Run_ClaimIfDue(ClaimInputsOk)
  \/ Run_TryFlush(FlushInputsOk(now, rewards))
  \/ \E b \in BUILDERS, answer \in {"accepted", "rejected", "timeout"} : Bundle_Settle(b, answer)
  \/ Run_FlushReturn(FlushInputsOk(now, rewards))
  \/ Run_ClaimReturn(ClaimInputsOk)
  \/ Run_ClaimAfterFlush(ClaimInputsOk)
  \/ Run_Sleep
  \/ Interrupt

InitBundle ==
  /\ Init
  /\ bot = "dynamic" /\ USE_MEV_BUNDLE
  /\ FLUSH_MODE = "block" /\ EPOCH_WINDOW_SEC = MaxWindowSec

SpecBundle == InitBundle /\ [][NextBundle]_vars

\* getGasConfig on its own: a genesis bot is about to call it with some answer of
\* the network and some settings, and the call returns.
InitGas ==
  /\ InitProcess
  /\ bot = "simple"
  /\ gas \in [call : GasCalls, result : {NULL}]
  /\ clock = NULL
  /\ fanOut = NULL

SpecGas == InitGas /\ [][GetGasConfig]_vars

\* getLocalTime on its own: the dynamic-sync bot calls it (part_000:369) some
\* seconds after an anchor was set, or with no anchor yet.
InitClock ==
  /\ InitProcess
  /\ bot = "dynamic"
  /\ gas = NULL
  /\ clock \in [call : ClockCalls, result : {NULL}]
  /\ fanOut = NULL

SpecClock == InitClock /\ [][GetLocalTime]_vars

\* One firing tick of the dynamic-sync bot in fan-out mode from its sample on
\* (part_000:390-426), call by call, with the chain mining blocks meanwhile.
NextFanOut ==
  \/ FanOut_TickClaim
  \/ FanOut_FlushNonce \/ FanOut_FlushTarget \/ FanOut_FlushSend
  \/ FanOut_ClaimRead \/ FanOut_ClaimNonce \/ FanOut_ClaimTarget \/ FanOut_ClaimSend
  \/ FanOut_Mine

InitFanOut ==
  /\ InitProcess
  /\ bot = "dynamic" /\ USE_MEV_BUNDLE
  /\ gas = NULL /\ clock = NULL
  /\ fanOut \in { f \in [ at : {"tickClaim"}, call : {"tick"}, blockNumber : {0},
                           txCount : {0}, userReward : RewardLevels,
                           balance : RewardLevels, earns : RewardLevels,
                           early : {NULL}, flush : {NULL}, claim : {NULL},
                           sent : {{}}, included : {{}} ] :
                     f.userReward = f.balance }

SpecFanOut == InitFanOut /\ [][NextFanOut]_vars

----------------------------------------------------------------------------
(* Claims *)

\* C1: in the dynamic-sync bot, as long as no fresh on-chain sample went backward
\* in (epoch, secondsIntoEpoch), tryFlush is called at most once for a target epoch.
C1_AtMostOncePerTarget ==
  (bot = "dynamic" /\ sampleMonotone /\ lastFlush # NULL) => ~lastFlush.repeated

\* C2: in the dynamic-sync bot lastFlushedEpoch never decreases, whatever the
\* samples are (fresh samples of a lower epoch and cached samples included).
C2_MarkNeverDecreases ==
  [][(bot = "dynamic" /\ pc' # "exited") => lastFlushedEpoch' >= lastFlushedEpoch]_vars

\* C3: when tryFlush caught an error other than 'no validators' / 'already
\* flushed', the tick leaves lastFlushedEpoch as it was.
C3_FailedSubmissionKeepsMark ==
  [][(bot = "dynamic" /\ pc = "claim2" /\ pc' = "sleep" /\ lastFlush.outcome = "failed")
       => lastFlushedEpoch' = lastFlushedEpoch]_vars

\* the decision table of the specification, read on the inputs of decision d
C4_Table(d) ==
  IF FLUSH_MODE = "block" THEN
    /\ d.shouldFlush <=> (d.onchainSeconds <= EPOCH_WINDOW_SEC /\ d.onchainEpoch # d.firedMark)
    /\ d.shouldFlush => d.targetEpoch = d.onchainEpoch
  ELSE IF FLUSH_MODE = "local" THEN
    /\ d.shouldFlush <=> (d.localSeconds <= EPOCH_WINDOW_SEC /\ d.localEpoch # d.firedMark)
    /\ d.shouldFlush => d.targetEpoch = d.localEpoch
  ELSE IF FLUSH_MODE = "pre" THEN
    /\ d.shouldFlush <=> (d.onchainNextEpochIn <= PRE_SEND_SECONDS
                          /\ d.onchainEpoch # d.firedMark)
    /\ d.shouldFlush => d.targetEpoch = d.onchainEpoch + 1
  ELSE
    /\ d.shouldFlush <=> (d.localNextEpochIn <= PRE_SEND_SECONDS
                          /\ d.localEpoch # d.firedMark)
    /\ d.shouldFlush => d.targetEpoch = d.localEpoch + 1

\* C4: the decision of every tick of the dynamic-sync bot is the one of the
\* decision table, for the tick's on-chain sample, local view and mark, and the
\* tick calls tryFlush with the table's target exactly when the table fires.
C4_DecisionTable ==
  /\ (bot = "dynamic" /\ decision # NULL) =>
       /\ C4_Table(decision)
       /\ decision.shouldFlush <=> (pc \in {"flush", "claim2"} \/ lastFlush # NULL)
       /\ decision.shouldFlush => targetEpoch = decision.targetEpoch
  \* window 15, epoch 7, mark 6: 10 s into the epoch fires for 7, 16 s does not
  /\ evaluate("block", 15, 5, 10, 7, 2294, 10, 2294, 7, 6)
       = [shouldFlush |-> TRUE, targetEpoch |-> 7]
  /\ ~evaluate("block", 15, 5, 16, 7, 2288, 16, 2288, 7, 6).shouldFlush
  \* lead 5, epoch 7, mark 6: 4 s before the next epoch fires for 8
  /\ evaluate("pre", 15, 5, 2300, 7, 4, 2300, 4, 7, 6)
       = [shouldFlush |-> TRUE, targetEpoch |-> 8]

\* a tick under 'local-pre' that fired after an earlier fire, with the local clock
\* in another epoch than the chain
C4_Witness ==
  /\ bot = "dynamic" /\ decision # NULL /\ decision.shouldFlush
  /\ FLUSH_MODE = "local-pre"
  /\ decision.firedMark # -1
  /\ decision.localEpoch # decision.onchainEpoch

\* C5: in both slot-based bots a fire under 'pre' at on-chain epoch e has
\* target e+1 and leaves lastFlushedEpoch = e+1; under 'block' and 'local' the mark
\* is the epoch that was fired for.
C5_MarkIsNextEpochInBothBots ==
  (bot \in {"dynamic", "multi"} /\ pc = "sleep" /\ lastFlush # NULL) =>
     IF FLUSH_MODE = "pre"
     THEN /\ lastFlush.target = decision.onchainEpoch + 1
          /\ lastFlushedEpoch = decision.onchainEpoch + 1
     ELSE IF FLUSH_MODE \in {"block", "local"}
     THEN lastFlushedEpoch = lastFlush.target
     ELSE TRUE

\* C6: with a node that follows the head, no failing call and ticks at the poll
\* interval, the trigger transaction goes out for every epoch: by the end of a tick
\* in on-chain epoch c, a transaction for c has gone out (under 'pre' and
\* 'local-pre', for every c after the epoch the bot started in).
C6_EveryEpochDispatched ==
  (bot = "dynamic" /\ pc = "sleep" /\ newState # NULL) =>
     IF FLUSH_MODE \in {"pre", "local-pre"}
     THEN newState.epochNum >= 1 => newState.epochNum \in dispatchedFor
     ELSE newState.epochNum \in dispatchedFor

\* C7: when a tick fires and every node call of tryFlush succeeds, the trigger
\* transaction goes out in that tick (broadcast, or bundle to the builders).
C7_FireImpliesDispatch ==
  (bot = "dynamic" /\ lastFlush # NULL /\ lastFlush.nodeOk) =>
     lastFlush.outcome \in {"bundle", "confirmed"}

\* C8: every sample of the chain-time oracle has 0 <= secondsIntoEpoch <
\* epochDurationSeconds.  Slot model, for slotsPerEpoch > 0 and slotDuration > 0:
\* epoch = slot div slotsPerEpoch, seconds = (slot mod slotsPerEpoch) * slotDuration,
\* duration = slotsPerEpoch * slotDuration.  Genesis model, for a timestamp at or
\* after genesis: the timestamp is genesis + epoch * duration + seconds, so that a
\* timestamp a whole number of durations past genesis gives seconds 0.
C8_SlotSampleOk(st) ==
  (st.slotsPerEpoch > 0 /\ st.slotDurationSec > 0) =>
     /\ 0 <= st.secondsIntoEpoch
     /\ st.secondsIntoEpoch < st.slotsPerEpoch * st.slotDurationSec
     /\ st.epochNum * st.slotsPerEpoch <= st.currentSlot
     /\ st.currentSlot < (st.epochNum + 1) * st.slotsPerEpoch
     /\ st.secondsIntoEpoch
          = (st.currentSlot - st.epochNum * st.slotsPerEpoch) * st.slotDurationSec
     /\ bot = "dynamic" => st.epochDurationSec = st.slotsPerEpoch * st.slotDurationSec

C8_SampleInRange ==
  /\ (bot \in {"dynamic", "multi"} /\ newState # NULL) => C8_SlotSampleOk(newState)
  /\ (bot = "dynamic" /\ cachedOnChainState # NULL) => C8_SlotSampleOk(cachedOnChainState)
  /\ (bot = "simple" /\ newState # NULL) =>
        /\ newState.blockTimestamp >= GENESIS_TIMESTAMP
        /\ 0 <= newState.secondsIntoEpoch
        /\ newState.secondsIntoEpoch < EPOCH_DURATION_SEC
        /\ newState.blockTimestamp
             = GENESIS_TIMESTAMP + newState.currentEpoch * EPOCH_DURATION_SEC
                 + newState.secondsIntoEpoch

\* the genesis bot sampled a block stamped exactly one duration after genesis
C8_Witness ==
  /\ bot = "simple" /\ newState # NULL
  /\ newState.blockTimestamp = GENESIS_TIMESTAMP + EPOCH_DURATION_SEC
  /\ newState.currentEpoch = 1
  /\ newState.secondsIntoEpoch = 0

\* C9: getOnChainState returns no sample with epochDurationSec <= 0, so that none
\* is ever the sample of a tick of the dynamic-sync bot.
C9_NoZeroDurationSample ==
  (bot = "dynamic" /\ newState # NULL) => newState.epochDurationSec > 0

\* C10: every result of getLocalTime has 0 <= seconds < duration and
\* nextEpochIn = duration - seconds.
C10_LocalViewInRange ==
  (bot = "dynamic" /\ localView # NULL) =>
     /\ 0 <= localView.seconds
     /\ localView.seconds < localEpochDurationSec
     /\ localView.nextEpochIn = localEpochDurationSec - localView.seconds

\* C11: a getLocalTime call with no re-anchor since the previous call returns an
\* epoch that is not below the anchor's; when anchorSeconds + elapsed =
\* k * duration + r with k >= 1 and 0 <= r < duration, it returns epoch
\* anchorEpoch + k and seconds r.
C11_RolloverCarriesRemainder ==
  [][(bot = "dynamic" /\ pc = "tick" /\ localView' # NULL /\ localStartTimeMs # 0
        /\ lastOnChainSeconds' = lastOnChainSeconds)
       => LET total == localEpochStartSec + ((now - localStartTimeMs) \div 1000)
              k == total \div localEpochDurationSec
              r == total % localEpochDurationSec
          IN  /\ localView'.epoch >= localCurrentEpoch
              /\ k >= 1 => (localView'.epoch = localCurrentEpoch + k /\ localView'.seconds = r)]_vars

\* C12 as stated: two consecutive getLocalTime calls with no re-anchor in between
\* and less than one epoch duration apart: the second result has strictly greater
\* seconds and the same epoch.
C12_SecondsIncreaseEpochSame ==
  (bot = "dynamic" /\ prevLocal # NULL
     /\ lastLocal.at - prevLocal.at < localEpochDurationSec * 1000)
    => /\ lastLocal.seconds > prevLocal.seconds
       /\ lastLocal.epoch = prevLocal.epoch

\* C12 as amended: when the first result's seconds plus the time between the calls
\* is still below the epoch duration, the second result has the seconds of the
\* first plus that time, and the same epoch; otherwise the second result has a
\* greater epoch and smaller seconds.
C12_SecondsIncreaseUntilRollover ==
  (bot = "dynamic" /\ prevLocal # NULL
     /\ lastLocal.at - prevLocal.at < localEpochDurationSec * 1000)
    => LET advance == (lastLocal.at - prevLocal.at) \div 1000
       IN  /\ advance > 0
           /\ IF prevLocal.seconds + advance < localEpochDurationSec
              THEN /\ lastLocal.seconds = prevLocal.seconds + advance
                   /\ lastLocal.epoch = prevLocal.epoch
              ELSE /\ lastLocal.epoch > prevLocal.epoch
                   /\ lastLocal.seconds < prevLocal.seconds

\* the local clock was read twice under one anchor, more than a second apart,
\* without reaching the end of the epoch
C12_Witness ==
  /\ bot = "dynamic" /\ prevLocal # NULL
  /\ lastLocal.at - prevLocal.at > CHECK_INTERVAL_MS
  /\ lastLocal.seconds > prevLocal.seconds
  /\ lastLocal.epoch = prevLocal.epoch

\* C13: after a tick of the dynamic-sync bot that read a fresh on-chain sample
\* (of positive duration), the anchor of the local clock holds that sample's
\* epoch, seconds and duration.
C13_AnchorIsFreshSample ==
  (bot = "dynamic" /\ freshSample /\ newState # NULL /\ newState.epochDurationSec > 0)
    => /\ localCurrentEpoch = newState.epochNum
       /\ localEpochStartSec = newState.secondsIntoEpoch
       /\ localEpochDurationSec = newState.epochDurationSec

\* C14: a tick of the dynamic-sync bot whose chain read fails while a sample is
\* cached leaves the cached sample as it is and goes on with it: it claims when
\* the cached sample shows a reward, and evaluates the trigger policy on the
\* cached sample's epoch and seconds.
C14_FailedReadServesCache ==
  [][/\ (bot = "dynamic" /\ pc = "tick" /\ pc' \notin {"tick", "exited"} /\ ~freshSample'
           /\ cachedOnChainState # NULL)
        => /\ cachedOnChainState' = cachedOnChainState
           /\ newState' = cachedOnChainState
           /\ pc' \in {"claim1", "flush", "sleep"}
           /\ pc' = "claim1" <=> cachedOnChainState.userReward > 0
           /\ pc' # "claim1" =>
                /\ decision' # NULL
                /\ decision'.onchainEpoch = cachedOnChainState.epochNum
                /\ decision'.onchainSeconds = cachedOnChainState.secondsIntoEpoch
     /\ (bot = "dynamic" /\ pc = "claim1" /\ pc' \notin {"claim1", "exited"} /\ ~freshSample)
        => /\ lastClaim' # NULL
           /\ pc' \in {"flush", "sleep"}
           /\ decision' # NULL
           /\ decision'.onchainEpoch = cachedOnChainState.epochNum
           /\ decision'.onchainSeconds = cachedOnChainState.secondsIntoEpoch]_vars

\* a tick whose read failed claimed and then fired on the cached sample
C14_Witness ==
  /\ bot = "dynamic" /\ ~freshSample /\ newState # NULL
  /\ lastClaim # NULL /\ lastClaim.at = "tick"
  /\ pc = "flush"
  /\ decision.onchainEpoch = cachedOnChainState.epochNum

\* C15: a chain read that fails before any sample was read does not end the
\* dynamic-sync bot: the poll loop is running, or still about to start.
C15_StartupFailureKeepsRunning ==
  bot = "dynamic" => pc \in {"start", "tick", "claim1", "flush", "claim2", "sleep", "exited"}

\* the poll loop has started and runs
C16_LoopStarted == pc \notin {"start", "dead"}

\* the wall clock has reached the horizon of the model
C16_AtHorizon == pc = "sleep" /\ now >= (1 + MaxNowSec) * 1000

\* C16: once the poll loop has started, no step of a tick ends the loop, failed
\* steps included, and the next tick eventually begins (up to the horizon of the
\* wall clock), in each of the four bots.
C16_LoopSurvivesFailures ==
  /\ [][C16_LoopStarted => C16_LoopStarted']_vars
  /\ [](C16_LoopStarted => <>(pc = "tick" \/ C16_AtHorizon))
  /\ []((C16_LoopStarted /\ pc = "tick") => <>(pc # "tick"))

\* a tick of the spam-mode bot begins after a probe of the spam loop has thrown
C16_Witness == bot = "spam" /\ pc = "tick" /\ inSpamMode

\* C17: in the dynamic-sync bot a tick begins only when no chain read that an
\* earlier tick started is still in flight.
C17_TicksNeverOverlap ==
  (bot = "dynamic" /\ pc = "tick") => ~readsInFlight

\* C18: the process exits on an interrupt at a tick boundary only (the
\* loop is asleep, or about to take its sample), with status 0.
C18_ExitOnlyAtTickBoundary ==
  exit # NULL => (exit.code = 0 /\ exit.during \in {"start", "tick", "sleep"})

\* the balance is one that autoClaim claims
C19_InRange(balance) == 0 < balance /\ balance <= MAX_REWARD_TO_CLAIM

\* C19: an autoClaim call that read the balance sends claimRewards() and
\* waits for its confirmation (or catches the error of doing so) exactly when
\* 0 < balance <= MAX_REWARD_TO_CLAIM, and sends nothing when the balance is 0, in
\* every bot and in both submission modes.
C19_ClaimsAndWaitsIffInRange ==
  (lastClaim # NULL /\ lastClaim.read # -1) =>
     /\ lastClaim.outcome \in {"claimed", "failed"} <=> C19_InRange(lastClaim.read)
     /\ lastClaim.read = 0 => lastClaim.outcome = "none"

\* C20: in every bot and both submission modes, an autoClaim call that read a
\* balance above MAX_REWARD_TO_CLAIM dispatched nothing: no claim transaction and
\* no claim bundle, and no call made for a dispatch failed.
C20_NoClaimAboveCeiling ==
  (lastClaim # NULL /\ lastClaim.read > MAX_REWARD_TO_CLAIM) =>
     lastClaim.outcome \in {"none", "warned"}

\* an autoClaim call of a genesis bot read a balance above the ceiling and left it
C20_Witness ==
  /\ bot \in {"simple", "spam"} /\ lastClaim # NULL
  /\ lastClaim.read = MAX_REWARD_TO_CLAIM + 1 /\ lastClaim.outcome = "warned"
  /\ rewards = MAX_REWARD_TO_CLAIM + 1

\* C21: an autoClaim call that read a balance above MAX_REWARD_TO_CLAIM warns, in
\* every bot, besides sending no claim.
C21_WarnsAboveCeiling ==
  (lastClaim # NULL /\ lastClaim.read > MAX_REWARD_TO_CLAIM) =>
     lastClaim.outcome = "warned"

\* C22: in the dynamic-sync bot a tick invokes the opportunistic autoClaim exactly
\* when the reward balance on the chain during that tick is non-zero: the balance
\* of a sample read in an earlier tick does not decide.
C22_ClaimDecisionOnFreshBalance ==
  [][(bot = "dynamic" /\ pc = "tick" /\ pc' \in {"claim1", "flush", "sleep"}
        /\ newState' # NULL)
       => (pc' = "claim1" <=> rewards > 0)]_vars

\* C23: with USE_MEV_BUNDLE, tryFlush reports the submission as dispatched (returns
\* true) exactly when at least one builder accepted the bundle; when every builder
\* rejects or times out, the outcome is a failure.
C23_DispatchedIffSomeRelayAccepted ==
  (bot = "dynamic" /\ USE_MEV_BUNDLE /\ lastFlush # NULL /\ lastFlush.successCount # -1)
    => /\ lastFlush.returns <=> lastFlush.successCount >= 1
       /\ lastFlush.successCount = 0 => lastFlush.outcome = "failed"

\* C24: sendBundle starts the post to every builder at once, each post settles
\* on its own (a post that fails or times out leaves the others as they are,
\* and a pending post can still be accepted whatever the others did), the wait
\* ends only when every post has settled, and successCount is the number of
\* builders that accepted.
C24_JoinOfAllPosts ==
  /\ [][/\ (posts = NULL /\ posts' # NULL)
             => /\ pc \in {"claim1", "flush", "claim2"} /\ pc' = pc
                /\ posts' = [b \in BUILDERS |-> "pending"]
        /\ (posts # NULL /\ posts' # NULL /\ posts' # posts)
             => \E b \in BUILDERS :
                  /\ posts[b] = "pending" /\ posts'[b] # "pending"
                  /\ \A c \in BUILDERS \ {b} : posts'[c] = posts[c]
        /\ (posts # NULL /\ posts' = NULL)
             => /\ \A b \in BUILDERS : posts[b] # "pending"
                /\ pc' # pc
                /\ pc = "flush" =>
                     /\ lastFlush'.successCount
                          = Cardinality({b \in BUILDERS : posts[b] = "accepted"})
                     /\ lastFlush'.successCount = sendBundle(posts).successCount]_vars
  /\ []((posts # NULL /\ pc # "exited") =>
          \A b \in BUILDERS : posts[b] = "pending" => ENABLED Bundle_Settle(b, "accepted"))

\* three of the seven builders accepted, and sendBundle counted three
C24_Witness ==
  /\ pc = "claim2" /\ lastFlush # NULL /\ lastFlush.successCount = 3
  /\ lastFlush.outcome = "bundle"

\* the amount is not negative
C25_NonNegative(a) == a.gwei >= 0 /\ a.wei >= 0 /\ a.wei < GWEI

\* floor(base * (100 + percent) / 100), computed directly for a base below one
\* gwei and for a base of whole gwei
C25_Percent(base, percent) ==
  IF base.gwei = 0
  THEN Wei(0, (base.wei * (100 + percent)) \div 100)
  ELSE Wei((base.gwei * (100 + percent)) \div 100,
           ((base.gwei * (100 + percent)) % 100) * (GWEI \div 100))

\* C25: getGasConfig gives, for every base pair, under 'percent' both fields as
\* floor(base * (100 + percent) / 100) and under 'aggressive' both fields as
\* base + addGwei * 10^9, and never a negative field; base 100 with 20 percent
\* gives 120, base 1000000000 with 2 gwei gives 3000000000.
C25_GasArithmetic ==
  /\ (gas # NULL /\ gas.result # NULL) =>
       LET base == gasBase(gas.call.feeData)
           out == gas.result
       IN  /\ C25_NonNegative(out.maxFeePerGas) /\ C25_NonNegative(out.maxPriorityFeePerGas)
           /\ gas.call.strategy = "percent" =>
                /\ (base.baseMaxFee.gwei = 0 \/ base.baseMaxFee.wei = 0) =>
                     out.maxFeePerGas = C25_Percent(base.baseMaxFee, gas.call.percent)
                /\ (base.baseMaxPriority.gwei = 0 \/ base.baseMaxPriority.wei = 0) =>
                     out.maxPriorityFeePerGas
                       = C25_Percent(base.baseMaxPriority, gas.call.percent)
           /\ gas.call.strategy = "aggressive" =>
                /\ out.maxFeePerGas.gwei = base.baseMaxFee.gwei + gas.call.addGwei
                /\ out.maxFeePerGas.wei = base.baseMaxFee.wei
                /\ out.maxPriorityFeePerGas.gwei = base.baseMaxPriority.gwei + gas.call.addGwei
                /\ out.maxPriorityFeePerGas.wei = base.baseMaxPriority.wei
  /\ LET fees == [maxPriorityFeePerGas |-> Wei(0, 100), maxFeePerGas |-> Wei(0, 100),
                  gasPrice |-> NULL]
     IN  getGasConfig(fees, "percent", 2, 20)
           = [maxPriorityFeePerGas |-> Wei(0, 120), maxFeePerGas |-> Wei(0, 120)]
  /\ LET fees == [maxPriorityFeePerGas |-> Wei(1, 0), maxFeePerGas |-> Wei(1, 0),
                  gasPrice |-> NULL]
     IN  getGasConfig(fees, "aggressive", 2, 20)
           = [maxPriorityFeePerGas |-> Wei(3, 0), maxFeePerGas |-> Wei(3, 0)]

\* a 'percent' call whose result is rounded down: base 999 wei, 33 percent, 1328
C25_Witness ==
  /\ gas # NULL /\ gas.result # NULL /\ gas.call.strategy = "percent"
  /\ gas.call.percent = MaxPercent
  /\ gasBase(gas.call.feeData).baseMaxFee = Wei(0, 999)
  /\ gas.result.maxFeePerGas = Wei(0, 1328)

\* the network did not report the field, or reported zero
C26_Missing(v) == v = NULL \/ v = Wei(0, 0)

\* C26: under 'auto' getGasConfig returns a reported, non-zero field unchanged,
\* the fixed default (2 gwei max fee, 1 gwei priority) for a field reported as
\* null or zero, and the legacy gas price (priority = gasPrice / 2) only when
\* neither field is reported and a gas price is.
C26_AutoPassesOrDefaults ==
  (gas # NULL /\ gas.result # NULL /\ gas.call.strategy = "auto") =>
     LET fd == gas.call.feeData
         out == gas.result
     IN  IF C26_Missing(fd.maxFeePerGas) /\ C26_Missing(fd.maxPriorityFeePerGas)
            /\ fd.gasPrice # NULL
         THEN /\ out.maxFeePerGas = fd.gasPrice
              /\ out.maxPriorityFeePerGas = WeiHalf(fd.gasPrice)
         ELSE /\ out.maxFeePerGas = IF C26_Missing(fd.maxFeePerGas) THEN Wei(2, 0)
                                    ELSE fd.maxFeePerGas
              /\ out.maxPriorityFeePerGas = IF C26_Missing(fd.maxPriorityFeePerGas)
                                            THEN Wei(1, 0)
                                            ELSE fd.maxPriorityFeePerGas

\* C27: in the genesis-based bots a latest block older than genesis fails the
\* sample (BeforeGenesis); on the first tick after startup the process aborts,
\* on a later tick the tick is only skipped (no claim, no trigger, firedMark
\* unchanged) and the loop goes on.
C27_FatalAtStartupTransientLater ==
  [][(bot \in {"simple", "spam"} /\ pc = "tick" /\ pc' # "tick"
        /\ getEpochInfoThrows(blockTimestamp'))
       => IF firstTick
          THEN pc' = "dead"
          ELSE /\ pc' = "sleep"
               /\ UNCHANGED << rewards, lastFlushedEpoch, lastFlush, flushed,
                               lastClaim, decision >>]_vars

\* C28: in the genesis-based bots (simple and spam-mode) tryFlush is invoked at
\* most once per on-chain epoch, also when two ticks, or a probe of the spam loop
\* and a later tick, sample a time inside the same epoch's flush window.
C28_OneFlushPerEpoch ==
  (bot \in {"simple", "spam"} /\ lastFlush # NULL) => ~lastFlush.repeated

\* the simple bot alone has the property: its lastFlushedEpoch (java.mjs:223-226)
\* is set after every tryFlush
C28_SimpleOnly == (bot = "simple" /\ lastFlush # NULL) => ~lastFlush.repeated

\* C29: the simple bot (java.mjs) fires exactly when secondsIntoEpoch is at most
\* the window (15) and the epoch differs from the fired mark: it fires at second
\* 15 and does not fire at second 16.
C29_FiresThroughWindowEnd ==
  (bot = "simple" /\ decision # NULL)
    => (decision.shouldFlush <=>
          (decision.onchainSeconds <= GENESIS_EPOCH_WINDOW_SEC
             /\ decision.onchainEpoch # decision.firedMark))

\* C30: a tick of the dynamic-sync bot takes its steps in this order: sample and
\* status, autoClaim exactly when the sampled balance is not zero, evaluation of
\* the policy, and only if it fires tryFlush, then autoClaim, then the update of
\* lastFlushedEpoch; autoClaim follows every tryFlush, whatever it returned, and
\* never starts before tryFlush has returned.
C30_TickStepOrder ==
  [][(bot = "dynamic" /\ pc' # pc /\ pc' # "exited") =>
       /\ pc = "tick" =>
            /\ pc' \in {"claim1", "flush", "sleep"}
            /\ UNCHANGED << lastClaim, lastFlush, lastFlushedEpoch >>
            /\ newState' # NULL => (pc' = "claim1" <=> newState'.userReward > 0)
            /\ pc' = "claim1" => decision' = NULL
            /\ pc' = "flush" => (decision' # NULL /\ decision'.shouldFlush)
            /\ (pc' = "sleep" /\ newState' # NULL) => ~decision'.shouldFlush
       /\ pc = "claim1" =>
            /\ pc' \in {"flush", "sleep"}
            /\ lastClaim' # NULL /\ lastClaim'.at = "tick"
            /\ decision = NULL /\ decision' # NULL
            /\ pc' = "flush" <=> decision'.shouldFlush
            /\ UNCHANGED << lastFlush, lastFlushedEpoch >>
       /\ pc = "flush" =>
            /\ pc' = "claim2"
            /\ lastFlush = NULL /\ lastFlush' # NULL
            /\ UNCHANGED << lastClaim, lastFlushedEpoch >>
       /\ pc = "claim2" =>
            /\ pc' = "sleep"
            /\ lastFlush # NULL /\ UNCHANGED lastFlush
            /\ lastClaim' # NULL /\ lastClaim'.at = "flush"
            /\ lastFlushedEpoch' = targetEpoch
       /\ pc = "sleep" => pc' = "tick"]_vars

\* a tick that claimed on its sample, fired, had tryFlush fail, claimed again
\* and moved the mark
C30_Witness ==
  /\ bot = "dynamic" /\ pc = "sleep"
  /\ newState # NULL /\ newState.userReward > 0
  /\ lastFlush # NULL /\ ~lastFlush.returns
  /\ lastClaim # NULL /\ lastClaim.at = "flush"
  /\ lastFlushedEpoch = targetEpoch

\* the seconds since the epoch of the anchor began, at the time of the call
C31_Seconds(c) ==
  c.anchor.localEpochStartSec + (c.nowMs - c.anchor.localStartTimeMs) \div 1000

\* C31: getLocalTime returns for every anchor with 0 <= seconds < duration and
\* every elapsed time, however many durations have passed: it re-enters itself at
\* most once (exactly when the time reached the end of the epoch), and the
\* epoch advances by the whole number of elapsed durations in that one step.
C31_ReentersAtMostOnce ==
  (clock # NULL /\ clock.result # NULL) =>
     LET c == clock.call
         a == c.anchor
         out == clock.result
         rolled == a.localStartTimeMs # 0
                     /\ C31_Seconds(c) >= a.localEpochDurationSec
     IN  /\ out.calls = IF rolled THEN 2 ELSE 1
         /\ out.epoch = IF rolled
                        THEN a.localCurrentEpoch
                               + C31_Seconds(c) \div a.localEpochDurationSec
                        ELSE a.localCurrentEpoch

\* three durations and more have passed since the anchor was set, and the call
\* has returned after one re-entry
C31_Witness ==
  /\ clock # NULL /\ clock.result # NULL
  /\ clock.call.anchor.localStartTimeMs # 0
  /\ C31_Seconds(clock.call) >= 3 * clock.call.anchor.localEpochDurationSec
  /\ clock.call.anchor.localEpochDurationSec = SlotDurationSec * SlotsPerEpoch
  /\ clock.result.calls = 2
  /\ clock.result.epoch = clock.call.anchor.localCurrentEpoch + 3

\* C32: in fan-out mode the trigger bundle and the claim bundle built in one
\* tick (tryFlush, then autoClaim) never carry the same nonce for the same
\* target block.
C32_BundlesDifferInNonceOrBlock ==
  (fanOut # NULL /\ fanOut.flush # NULL /\ fanOut.claim # NULL
     /\ fanOut.at \in {"claimSend", "done"})
    => ~(fanOut.flush.nonce = fanOut.claim.nonce
           /\ fanOut.flush.targetBlock = fanOut.claim.targetBlock)

\* C33: in the spam-mode bot inSpamMode is false at the start of every tick:
\* spam mode entered in a tick is left in that tick, after at most
\* SPAM_DURATION_SEC * (1000 / SPAM_INTERVAL_MS) probes, also when a probe fails.
C33_SpamModeEndsWithTick ==
  /\ (bot = "spam" /\ pc = "tick") => ~inSpamMode
  /\ bot = "spam" => spamProbe <= SPAM_DURATION_SEC * (1000 \div SPAM_INTERVAL_MS)

====
